---- MODULE Spec2Model ----
(***************************************************************************)
(* A model of rudpbase: two engines (Rudpbase) exchanging datagrams over   *)
(* an unreliable, unordered, duplicating datagram service.                 *)
(*                                                                         *)
(* Time is kept as ages (elapsed milliseconds since an Instant was taken), *)
(* which is what every comparison in the code reads: now - send_time,      *)
(* now - last_activity, now - ping_sent, now - last_cleanup.  An age stops *)
(* growing at a cap above the thresholds it is compared with.              *)
(***************************************************************************)
EXTENDS Integers, Sequences, FiniteSets, TLC

VARIABLES
    eng,    \* eng[n]: the fields of the Rudpbase instance bound to address n
    net,    \* datagrams in flight: a bag (datagram -> number of copies)
    ret,    \* the last recv() that got a datagram, and what it returned
    hist,   \* history: per payload handed to send, what happened to it
    cnt,    \* history: what the environment may still do, and who has just ticked
    pool,   \* a SharedBufferPool, the buffers handed out from it, and its callers
    codec,  \* a frame on its way through RawPacket::serialize and RawPacket::parse
    cc      \* an RttStats on its own, and the last call made on it

vars == <<eng, net, ret, hist, cnt, pool, codec, cc>>

-----------------------------------------------------------------------------
(* Bounds of the model *)

MaxSend == 2        \* payloads submitted in one behaviour, both endpoints together
MaxDrop == 2        \* datagrams the network loses in one behaviour
MaxAdvance == 1     \* retransmission timeouts that elapse in one behaviour
CloseSend == 2      \* the same where close() is called
CloseDrop == 1
CloseAdvance == 1
MaxClose == 1       \* close() calls in one behaviour
RetrySend == 1      \* the same where one frame is followed to its end
RetryDrop == 6
RetryAdvance == 6
MaxDup == 1         \* datagrams the network duplicates in one behaviour
NackAdvance == 5    \* the same where the peer emits DataNack
MaxNack == 1        \* DataNack datagrams a peer emits in one behaviour
IdleSend == 1       \* the same where the endpoints fall silent
IdleDrop == 1
IdleMaxSeq == 5     \* time stops passing once a sequence counter reaches this
WrapSend == 2       \* the same where the sender's counter wraps
WrapAdvance == 1    \* minutes that pass after the wrap
MaxPoolCalls == 4   \* calls on the pool begun in one behaviour
MaxHeld == 2        \* buffers one context holds at a time
FlushSend == 257    \* the same where many acknowledgements await one tick
FlushDrop == 1
SeqSend == 3        \* the same where one endpoint has two peers
SeqAdvance == 1
TamperSend == 1     \* the same where the network alters datagrams
TamperAdvance == 1
MaxTamper == 1      \* datagrams the network alters in one behaviour
ListSend == 2       \* the same where the peer nacks lists of sequences
ProbeSend == 2      \* the same where a ping stays unanswered
ProbeAdvance == 2   \* silences in one such behaviour
IoSend == 1         \* the same where the socket may refuse a datagram
IoAdvance == 2
AckSend == 2        \* the same where the peer acknowledges lists of sequences
MaxAck == 2         \* DataAck datagrams of its own making a peer emits in one behaviour
MaxInput == 11      \* bytes of a datagram handed to parse as it comes
MaxAge == 60001     \* an age stops growing here (every threshold is below it)

(* Program constants *)

PROTOCOL_HEADER_SIZE == 9
MAX_BUFFER_SIZE == 1200
RecvSlack == 64                 \* recv: buf = [0u8; MAX_BUFFER_SIZE + 64]
DataCapacity == 1400            \* DEFAULT_BUFFER_SIZE - PROTOCOL_HEADER_SIZE
MAX_POOL_CAPACITY == 200000
DEFAULT_INITIAL_CAPACITY == 500
MaxRetry == 5                   \* handle_retransmissions: retry_count >= 5
InitialRtoMs == 200
SrttInitMs == 100
RttvarInitMs == 50
RtoMaxMs == 60000
RttGranularityMs == 10
InitialCwnd == 1
InitialSsthresh == 65535
IdleMs == 30000                 \* should_ping
PingTimeoutMs == 10000          \* should_close
MaxPingFailures == 3
CleanupMs == 60000              \* tick: periodic cleanup period
AvgRttInitUs == 200000
I32Max == 2147483647            \* a u32 is kept as the i32 with the same bits: 2^32 - 1 is -1
CountMod == 256                 \* u8
SeqBytes == 4
PrefixBytes == 16               \* SecurityCode::calculate hashes the first 16 bytes
PingBytes == 8

\* PacketType as u8
PT_Ping == 0
PT_PingAck == 1
PT_Data == 2
PT_DataAck == 3
PT_DataNack == 4
PT_Close == 5
PT_CloseAck == 6
LenMod == 65536                 \* u16

Node == {"A", "B"}

\* Payload lengths a caller submits: a short message and a full buffer.
ShortLen == 5
PayloadLens == {ShortLen, DataCapacity}


-----------------------------------------------------------------------------
(* Finite maps (HashMap), as functions on the set of their keys *)

EmptyMap == [k \in {} |-> 0]

Has(m, k) == k \in DOMAIN m

Put(m, k, v) == [x \in (DOMAIN m) \cup {k} |-> IF x = k THEN v ELSE m[x]]

Del(m, k) == [x \in (DOMAIN m) \ {k} |-> m[x]]

Min(a, b) == IF a <= b THEN a ELSE b

Max(a, b) == IF a >= b THEN a ELSE b

Abs(a) == IF a >= 0 THEN a ELSE 0 - a

\* Bags of datagrams
BagAdd(b, x) == IF x \in DOMAIN b THEN [b EXCEPT ![x] = @ + 1] ELSE Put(b, x, 1)

BagDel(b, x) == IF b[x] = 1 THEN Del(b, x) ELSE [b EXCEPT ![x] = @ - 1]

RECURSIVE BagAddAll(_, _)
BagAddAll(b, s) == IF s = <<>> THEN b ELSE BagAddAll(BagAdd(b, Head(s)), Tail(s))

RECURSIVE Copies(_, _)
Copies(b, S) == IF S = {} THEN 0
                ELSE LET x == CHOOSE y \in S : TRUE IN b[x] + Copies(b, S \ {x})

RECURSIVE SetToSeq(_)
SetToSeq(S) == IF S = {} THEN <<>>
               ELSE LET x == CHOOSE y \in S : \A z \in S : y <= z
                    IN <<x>> \o SetToSeq(S \ {x})

-----------------------------------------------------------------------------
(* Bytes.  A payload is [len |-> its length in bytes, body |-> its content]:  *)
(* the content of a Data payload is <<id>>, the identity of the bytes the     *)
(* caller wrote; of a DataAck/DataNack <<count, seq, seq, ...>>; of a Ping    *)
(* <<age of the timestamp>>; of a Close <<>>.                                 *)

NoData == [len |-> 0, body |-> <<>>]

UserData(id, len) == [len |-> len, body |-> <<id>>]

\* PacketType::from_u8 as it would be if it knew a type 7
from_u8_wide(value) == IF value \in 0..7 THEN value ELSE -1

\* protocol.rs PacketType::from_u8
from_u8(value) == IF value \in 0..6 THEN value ELSE -1

\* security.rs SecurityCode::calculate: FNV-1a over salt, type, seq, the length
\* as u16 and the first 16 bytes of the data (zero padded).  The hash is kept
\* as the tuple of what it is computed from.
calculate(packet_type, seq, data) ==
    <<packet_type, seq, data.len % LenMod,
      Min(data.len, PrefixBytes),
      SubSeq(data.body, 1, Min(Len(data.body), PrefixBytes \div SeqBytes))>>

\* security.rs SecurityCode::verify
verify(packet_type, seq, data, expected_code) ==
    calculate(packet_type, seq, data) = expected_code

\* protocol.rs RawPacket::serialize: type, security code, seq, data, in that order
serialize(packet) ==
    <<packet.packet_type, packet.security_code, packet.seq, packet.data>>

\* Length in bytes of a serialized frame
FrameLen(bytes) == PROTOCOL_HEADER_SIZE + bytes[4].len

\* protocol.rs RawPacket::parse
parse(bytes) ==
    IF FrameLen(bytes) < PROTOCOL_HEADER_SIZE
    THEN [err |-> "PacketTooSmall"]
    ELSE IF from_u8(bytes[1]) = -1
    THEN [err |-> "Protocol"]
    ELSE [err |-> "", packet_type |-> from_u8(bytes[1]), security_code |-> bytes[2],
          seq |-> bytes[3], data |-> bytes[4]]

\* The frame is as its sender made it
Intact(bytes) ==
    /\ parse(bytes).err = ""
    /\ verify(bytes[1], bytes[3], bytes[4], bytes[2])

\* protocol.rs DataAckPacket::serialize / DataNackPacket::serialize:
\* the count as u8, then every sequence in 4 bytes
seqs_serialize(seqs) ==
    [len |-> 1 + SeqBytes * Len(seqs), body |-> <<Len(seqs) % CountMod>> \o seqs]

\* protocol.rs DataAckPacket::deserialize / DataNackPacket::deserialize:
\* <<FALSE>> for None, <<TRUE, seqs>> for Some
seqs_deserialize(data) ==
    IF data.len = 0 THEN <<FALSE, <<>>>>
    ELSE LET count == data.body[1]
         IN IF data.len < 1 + count * SeqBytes THEN <<FALSE, <<>>>>
            ELSE <<TRUE, SubSeq(data.body, 2, 1 + count)>>

\* protocol.rs PingPacket::serialize, the timestamp kept as its age
ping_serialize(age) == [len |-> PingBytes, body |-> <<age>>]

\* core.rs recv: recv_from into a buffer of MAX_BUFFER_SIZE + 64 bytes cuts a
\* longer datagram to the buffer's length
recv_from(bytes) ==
    LET room == MAX_BUFFER_SIZE + RecvSlack - PROTOCOL_HEADER_SIZE
        data == bytes[4]
    IN IF data.len <= room THEN bytes
       ELSE <<bytes[1], bytes[2], bytes[3],
              [len |-> room,
               body |-> IF bytes[1] \in {PT_DataAck, PT_DataNack}
                        THEN SubSeq(data.body, 1, Min(Len(data.body), 1 + (room - 1) \div SeqBytes))
                        ELSE data.body]>>

\* buffer_pool.rs PooledBuffer::fill_protocol_header followed by full_data
fill_protocol_header(packet_type, seq, data) ==
    <<packet_type, calculate(packet_type, seq, data), seq, data>>

\* The frame byte by byte.  A u32 is kept as the i32 with the same bits, a byte
\* as a number in 0..255.

\* u32::to_be_bytes as it would be with the bytes in the opposite order
to_le_bytes(x) ==
    LET low == IF x >= 0 THEN x ELSE (x + I32Max) + 1     \* the low 31 bits
        top == IF x >= 0 THEN 0 ELSE 128
    IN <<low % 256, (low \div 256) % 256, (low \div 65536) % 256,
         top + (low \div 16777216)>>

\* u32::to_be_bytes
to_be_bytes(x) ==
    LET low == IF x >= 0 THEN x ELSE (x + I32Max) + 1     \* the low 31 bits
        top == IF x >= 0 THEN 0 ELSE 128
    IN <<top + (low \div 16777216), (low \div 65536) % 256, (low \div 256) % 256,
         low % 256>>

\* u32::from_be_bytes
from_be_bytes(b) ==
    LET low == ((b[1] % 128) * 16777216) + (b[2] * 65536) + (b[3] * 256) + b[4]
    IN IF b[1] >= 128 THEN (low - I32Max) - 1 ELSE low

\* protocol.rs RawPacket::serialize, byte by byte
RawPacket_serialize(packet) ==
    <<packet.packet_type>> \o to_be_bytes(packet.security_code)
        \o to_be_bytes(packet.seq) \o packet.data

\* protocol.rs RawPacket::parse, byte by byte
RawPacket_parse(packet) ==
    IF Len(packet) < PROTOCOL_HEADER_SIZE
    THEN [err |-> "PacketTooSmall"]
    ELSE IF from_u8(packet[1]) = -1
    THEN [err |-> "Protocol"]
    ELSE [err |-> "", packet_type |-> from_u8(packet[1]),
          security_code |-> from_be_bytes(SubSeq(packet, 2, 5)),
          seq |-> from_be_bytes(SubSeq(packet, 6, 9)),
          data |-> SubSeq(packet, PROTOCOL_HEADER_SIZE + 1, Len(packet))]

-----------------------------------------------------------------------------
(* stats.rs *)

\* ConnectionStats::new (last_activity, which nothing reads, is left out)
ConnectionStats_new ==
    [packets_sent |-> 0, packets_received |-> 0, packets_lost |-> 0,
     retransmissions |-> 0, avg_rtt |-> AvgRttInitUs]

\* ConnectionStats::update_rtt, in microseconds (the code keeps nanoseconds)
stats_update_rtt(st, rtt_ms) ==
    [st EXCEPT !.avg_rtt = (@ * 7 + rtt_ms * 1000) \div 8]

\* RttStats::new
RttStats_new ==
    [srtt |-> SrttInitMs, rttvar |-> RttvarInitMs, rto |-> InitialRtoMs,
     cwnd |-> InitialCwnd, ssthresh |-> InitialSsthresh, in_flight |-> 0,
     last_congestion |-> -1,                     \* None; otherwise its age in ms
     congestion_state |-> "SlowStart"]

\* RttStats::update_rtt (core.rs calls it as update): the f64 arithmetic on
\* whole milliseconds, kept exact in eighths of a millisecond
update_rtt(rs, sample) ==
    LET rttvar4 == 3 * rs.rttvar + Abs(rs.srtt - sample)     \* 4 * new_rttvar_ms
        srtt8 == 7 * rs.srtt + sample                        \* 8 * new_srtt_ms
        rto8 == srtt8 + Max(8 * rttvar4, 8 * RttGranularityMs)
    IN [rs EXCEPT !.rttvar = rttvar4 \div 4,
                  !.srtt = srtt8 \div 8,
                  !.rto = Max(Min(rto8 \div 8, RtoMaxMs), InitialRtoMs)]

\* ConnectionState::new; ping_sent = -1 stands for None
ConnectionState_new ==
    [last_activity |-> 0, ping_sent |-> -1, consecutive_ping_failures |-> 0,
     status |-> "Alive"]

\* ConnectionState::update_activity
update_activity(cs) ==
    [cs EXCEPT !.last_activity = 0, !.consecutive_ping_failures = 0, !.status = "Alive"]

\* ConnectionState::mark_ping_sent
mark_ping_sent(cs) == [cs EXCEPT !.ping_sent = 0, !.status = "Probing"]

\* mark_ping_received as it would be if the ping stayed marked as sent
mark_ping_received_pending(cs) ==
    [cs EXCEPT !.consecutive_ping_failures = 0, !.status = "Alive", !.last_activity = 0]

\* ConnectionState::mark_ping_received
mark_ping_received(cs) ==
    [cs EXCEPT !.ping_sent = -1, !.consecutive_ping_failures = 0,
               !.status = "Alive", !.last_activity = 0]

\* should_ping as it would be if an outstanding ping did not hold back the next
should_ping_again(cs) == cs.last_activity > IdleMs

\* ConnectionState::should_ping
should_ping(cs) == cs.last_activity > IdleMs /\ cs.ping_sent = -1

\* should_close as it would be if an unanswered ping alone were enough
should_close_on_timeout(cs) ==
    IF cs.ping_sent # -1
    THEN cs.ping_sent > PingTimeoutMs
    ELSE cs.consecutive_ping_failures >= MaxPingFailures

\* ConnectionState::should_close
should_close(cs) ==
    IF cs.ping_sent # -1
    THEN cs.ping_sent > PingTimeoutMs /\ cs.consecutive_ping_failures >= MaxPingFailures
    ELSE cs.consecutive_ping_failures >= MaxPingFailures

\* ConnectionState::mark_packet_lost
mark_packet_lost(cs) == [cs EXCEPT !.status = "Degraded"]


-----------------------------------------------------------------------------
(* buffer_pool.rs.  A buffer (a Vec<u8> of DEFAULT_BUFFER_SIZE bytes) is      *)
(* known by an identity, a positive number it gets when it is first handed    *)
(* out.  The free list is kept run-length encoded: an item [id, n] is either  *)
(* one buffer that has been handed out before (id > 0, n = 1) or a run of n   *)
(* buffers that never have (id = 0).                                          *)

\* n buffers just allocated, as a free list
Run(n) == IF n = 0 THEN <<>> ELSE <<[id |-> 0, n |-> n]>>

\* VecDeque::push_back
push_back(q, item) ==
    IF q # <<>> /\ item.id = 0 /\ q[Len(q)].id = 0
    THEN [q EXCEPT ![Len(q)].n = @ + item.n]
    ELSE Append(q, item)

\* VecDeque::pop_front: what is left
pop_front(q) ==
    IF Head(q).n = 1 THEN Tail(q) ELSE <<[Head(q) EXCEPT !.n = @ - 1]>> \o Tail(q)

\* VecDeque::len
RECURSIVE FreeLen(_)
FreeLen(q) == IF q = <<>> THEN 0 ELSE Head(q).n + FreeLen(Tail(q))

\* BufferPool::new
BufferPool_new(initial_capacity) ==
    [free_buffers |-> Run(initial_capacity),
     total_allocations |-> 0, pool_hits |-> 0, pool_misses |-> 0]

\* BufferPool::get_buffer as it would be if a miss were not counted
get_buffer_uncounted(P, seen, made) ==
    IF seen # <<>>
    THEN [pool |-> [P EXCEPT !.total_allocations = @ + 1, !.pool_hits = @ + 1,
                             !.free_buffers = pop_front(seen)],
          buffer |-> IF Head(seen).id = 0 THEN made + 1 ELSE Head(seen).id,
          made |-> IF Head(seen).id = 0 THEN made + 1 ELSE made]
    ELSE [pool |-> [P EXCEPT !.total_allocations = @ + 1],
          buffer |-> made + 1, made |-> made + 1]

\* BufferPool::get_buffer; seen is the free list as the caller, holding the
\* lock, finds it, and made the number of identities given out so far
get_buffer(P, seen, made) ==
    IF seen # <<>>
    THEN [pool |-> [P EXCEPT !.total_allocations = @ + 1, !.pool_hits = @ + 1,
                             !.free_buffers = pop_front(seen)],
          buffer |-> IF Head(seen).id = 0 THEN made + 1 ELSE Head(seen).id,
          made |-> IF Head(seen).id = 0 THEN made + 1 ELSE made]
    ELSE [pool |-> [P EXCEPT !.total_allocations = @ + 1, !.pool_misses = @ + 1],
          buffer |-> made + 1, made |-> made + 1]

\* PooledBuffer as SharedBufferPool::get_write_buffer builds it
PooledBuffer(raw_buffer) == [raw_buffer |-> raw_buffer, data_len |-> 0]

\* PooledBuffer::set_data_len
set_data_len(buffer, len) ==
    LET max_data_len == (PROTOCOL_HEADER_SIZE + DataCapacity) - PROTOCOL_HEADER_SIZE
    IN IF len > max_data_len
       THEN [result |-> "BufferTooLarge", buffer |-> buffer]
       ELSE [result |-> "Ok", buffer |-> [buffer EXCEPT !.data_len = len]]

\* Drop for PooledBuffer, under the lock
drop(P, seen, raw_buffer) ==
    IF FreeLen(seen) < MAX_POOL_CAPACITY
    THEN [P EXCEPT !.free_buffers = push_back(seen, [id |-> raw_buffer, n |-> 1])]
    ELSE P

\* SharedBufferPool::warmup, under the lock
warmup(P, seen, count) ==
    LET n == Min(count, Max(MAX_POOL_CAPACITY - FreeLen(seen), 0))
    IN IF n = 0 THEN P
       ELSE [P EXCEPT !.free_buffers = push_back(seen, [id |-> 0, n |-> n])]

\* SharedBufferPool::stats
stats(P) ==
    [total_allocations |-> P.total_allocations, pool_hits |-> P.pool_hits,
     pool_misses |-> P.pool_misses, free_count |-> FreeLen(P.free_buffers)]

\* Mutex::lock as it would be if it did not wait for the holder
lock_unheld(mutex) == TRUE

\* Mutex::lock returns once nobody holds the mutex
lock(mutex) == mutex = ""

-----------------------------------------------------------------------------
(* core.rs: the engine.  Every operation takes the fields of the engine as a  *)
(* record E and yields the new fields in .e and the datagrams handed to       *)
(* socket.send_to, in order, in .out as [dst, bytes].                         *)

Get(m, k, default) == IF Has(m, k) THEN m[k] ELSE default

\* u32::saturating_add(1), which stays at u32::MAX
saturating_add(seq) ==
    IF seq = 0 - 1 THEN seq ELSE IF seq = I32Max THEN (0 - I32Max) - 1 ELSE seq + 1

\* u32::wrapping_add(1) on the two's complement image of the u32
wrapping_add(seq) ==
    IF seq = I32Max THEN (0 - I32Max) - 1 ELSE seq + 1

\* Rudpbase::new
Rudpbase_new ==
    [send_buffer |-> EmptyMap, recv_acks |-> EmptyMap, next_seq |-> EmptyMap,
     rtt_stats |-> EmptyMap, connection_stats |-> EmptyMap,
     connection_states |-> EmptyMap, pending_acks |-> EmptyMap, last_cleanup |-> 0]

\* PendingPacket::new
PendingPacket_new(data, rto) ==
    [data |-> data, age |-> 0, retry_count |-> 0, rto |-> rto]

\* PendingPacket::should_retry
should_retry(pp) == pp.age >= pp.rto

\* PendingPacket::retry
retry(pp, rto) == [pp EXCEPT !.retry_count = @ + 1, !.age = 0, !.rto = rto]

\* Rudpbase::get_next_seq: <<the sequence returned, the counter map afterwards>>
get_next_seq(next_seq, addr) ==
    LET current == Get(next_seq, addr, 0)
    IN <<current, Put(next_seq, addr, wrapping_add(current))>>

\* Rudpbase::connection_status
connection_status(E, addr) ==
    IF Has(E.connection_states, addr) THEN E.connection_states[addr].status ELSE "Dead"

\* Rudpbase::get_stats: TRUE when it returns Some
has_stats(E, addr) == Has(E.connection_stats, addr)

\* cleanup_connection as it would be if the sequence counter were kept
cleanup_connection_counter_kept(E, addr) ==
    [E EXCEPT !.send_buffer = Del(@, addr),
              !.recv_acks = Del(@, addr),
              !.rtt_stats = Del(@, addr),
              !.connection_stats = Del(@, addr),
              !.connection_states = Del(@, addr),
              !.pending_acks = Del(@, addr)]

\* Rudpbase::cleanup_connection
cleanup_connection(E, addr) ==
    [E EXCEPT !.send_buffer = Del(@, addr),
              !.recv_acks = Del(@, addr),
              !.next_seq = Del(@, addr),
              !.rtt_stats = Del(@, addr),
              !.connection_stats = Del(@, addr),
              !.connection_states = Del(@, addr),
              !.pending_acks = Del(@, addr)]

\* send as it would be if the statistics and the liveness entry were updated
\* before the datagram is handed to the socket
send_bookkeeping_first(E, data, target, sent_ok) ==
    LET ns == get_next_seq(E.next_seq, target)
        seq == ns[1]
        bytes == fill_protocol_header(PT_Data, seq, data)
        rto == IF Has(E.rtt_stats, target) THEN E.rtt_stats[target].rto ELSE InitialRtoMs
        parked == [E EXCEPT !.next_seq = ns[2],
                            !.send_buffer = Put(@, target,
                                Put(Get(@, target, EmptyMap), seq, PendingPacket_new(bytes, rto))),
                            !.connection_stats = Put(@, target,
                                [Get(@, target, ConnectionStats_new) EXCEPT !.packets_sent = @ + 1]),
                            !.connection_states = Put(@, target,
                                update_activity(Get(@, target, ConnectionState_new)))]
    IN IF ~sent_ok
       THEN [e |-> parked, out |-> <<>>, result |-> "Io"]
       ELSE [e |-> parked, out |-> <<[dst |-> target, bytes |-> bytes]>>, result |-> "Ok"]

\* Rudpbase::send; sent_ok is whether socket.send_to succeeded
send(E, data, target, sent_ok) ==
    LET ns == get_next_seq(E.next_seq, target)
        seq == ns[1]
        bytes == fill_protocol_header(PT_Data, seq, data)
        rto == IF Has(E.rtt_stats, target) THEN E.rtt_stats[target].rto ELSE InitialRtoMs
        parked == [E EXCEPT !.next_seq = ns[2],
                            !.send_buffer = Put(@, target,
                                Put(Get(@, target, EmptyMap), seq, PendingPacket_new(bytes, rto)))]
    IN IF ~sent_ok
       THEN [e |-> parked, out |-> <<>>, result |-> "Io"]
       ELSE [e |-> [parked EXCEPT
                      !.connection_stats = Put(@, target,
                          [Get(@, target, ConnectionStats_new) EXCEPT !.packets_sent = @ + 1]),
                      !.connection_states = Put(@, target,
                          update_activity(Get(@, target, ConnectionState_new)))],
             out |-> <<[dst |-> target, bytes |-> bytes]>>,
             result |-> "Ok"]

\* Rudpbase::send_ack
send_ack(E, target, seq) ==
    [E EXCEPT !.pending_acks = Put(@, target, Append(Get(@, target, <<>>), seq))]

\* handle_data_packet as it would be if a duplicate were dropped silently
handle_data_packet_silent(E, packet, from) ==
    LET received_seqs == Get(E.recv_acks, from, {})
        E1 == [E EXCEPT !.recv_acks = Put(@, from, received_seqs \cup {packet.seq})]
    IN IF packet.seq \in received_seqs
       THEN [e |-> E1, out |-> <<>>, result |-> "None", data |-> NoData]
       ELSE [e |-> [send_ack(E1, from, packet.seq) EXCEPT !.connection_stats = Put(@, from,
                       [Get(@, from, ConnectionStats_new) EXCEPT !.packets_received = @ + 1])],
             out |-> <<>>,
             result |-> IF packet.data.len > DataCapacity THEN "BufferTooLarge" ELSE "Data",
             data |-> IF packet.data.len > DataCapacity THEN NoData ELSE packet.data]

\* handle_data_packet as it would be if a duplicate were handed to the caller again
handle_data_packet_again(E, packet, from) ==
    LET received_seqs == Get(E.recv_acks, from, {})
        E1 == send_ack([E EXCEPT !.recv_acks = Put(@, from, received_seqs \cup {packet.seq})],
                       from, packet.seq)
        E2 == IF packet.seq \in received_seqs THEN E1
              ELSE [E1 EXCEPT !.connection_stats = Put(@, from,
                       [Get(@, from, ConnectionStats_new) EXCEPT !.packets_received = @ + 1])]
    IN IF packet.data.len > DataCapacity
       THEN [e |-> E2, out |-> <<>>, result |-> "BufferTooLarge", data |-> NoData]
       ELSE [e |-> E2, out |-> <<>>, result |-> "Data", data |-> packet.data]

\* Rudpbase::handle_data_packet
handle_data_packet(E, packet, from) ==
    LET received_seqs == Get(E.recv_acks, from, {})
    IN IF packet.seq \in received_seqs
       THEN [e |-> send_ack([E EXCEPT !.recv_acks = Put(@, from, received_seqs)],
                            from, packet.seq),
             out |-> <<>>, result |-> "None", data |-> NoData]
       ELSE LET E1 == send_ack([E EXCEPT !.recv_acks =
                                    Put(@, from, received_seqs \cup {packet.seq})],
                               from, packet.seq)
                E2 == [E1 EXCEPT !.connection_stats = Put(@, from,
                          [Get(@, from, ConnectionStats_new) EXCEPT !.packets_received = @ + 1])]
            IN IF packet.data.len > DataCapacity
               THEN [e |-> E2, out |-> <<>>, result |-> "BufferTooLarge", data |-> NoData]
               ELSE [e |-> E2, out |-> <<>>, result |-> "Data", data |-> packet.data]

\* ack_one as it would be if every listed sequence fed the estimator, held or not
ack_one_sampled(E, from, ack_seq) ==
    LET held == Has(E.send_buffer, from) /\ Has(E.send_buffer[from], ack_seq)
        rtt == IF held THEN E.send_buffer[from][ack_seq].age ELSE 0
        fed == [E EXCEPT !.rtt_stats = Put(@, from, update_rtt(Get(@, from, RttStats_new), rtt)),
                         !.connection_stats = Put(@, from,
                             stats_update_rtt(Get(@, from, ConnectionStats_new), rtt))]
    IN IF held THEN [fed EXCEPT !.send_buffer[from] = Del(@, ack_seq)] ELSE fed

\* ack_one as it would be if the acknowledged frame stayed in the send buffer
ack_one_kept(E, from, ack_seq) ==
    IF Has(E.send_buffer, from) /\ Has(E.send_buffer[from], ack_seq)
    THEN LET rtt == E.send_buffer[from][ack_seq].age
         IN [E EXCEPT !.rtt_stats = Put(@, from, update_rtt(Get(@, from, RttStats_new), rtt)),
                      !.connection_stats = Put(@, from,
                          stats_update_rtt(Get(@, from, ConnectionStats_new), rtt))]
    ELSE E

\* Rudpbase::handle_data_ack_packet, one acknowledged sequence
ack_one(E, from, ack_seq) ==
    IF Has(E.send_buffer, from) /\ Has(E.send_buffer[from], ack_seq)
    THEN LET rtt == E.send_buffer[from][ack_seq].age
         IN [E EXCEPT !.send_buffer[from] = Del(@, ack_seq),
                      !.rtt_stats = Put(@, from, update_rtt(Get(@, from, RttStats_new), rtt)),
                      !.connection_stats = Put(@, from,
                          stats_update_rtt(Get(@, from, ConnectionStats_new), rtt))]
    ELSE E

RECURSIVE ack_all(_, _, _)
ack_all(E, from, ack_seqs) ==
    IF ack_seqs = <<>> THEN E
    ELSE ack_all(ack_one(E, from, Head(ack_seqs)), from, Tail(ack_seqs))

\* Rudpbase::handle_data_ack_packet
handle_data_ack_packet(E, packet, from) ==
    LET ack_packet == seqs_deserialize(packet.data)
    IN [e |-> IF ack_packet[1] THEN ack_all(E, from, ack_packet[2]) ELSE E,
        out |-> <<>>, result |-> "None", data |-> NoData]

\* handle_data_nack_packet's loop body as it would be if a listed sequence
\* were retransmitted only before its first retry
nack_one_first_only(R, from, nack_seq) ==
    IF /\ Has(R.e.send_buffer, from) /\ Has(R.e.send_buffer[from], nack_seq)
       /\ R.e.send_buffer[from][nack_seq].retry_count = 0
    THEN LET pp == R.e.send_buffer[from][nack_seq]
         IN [e |-> [R.e EXCEPT
                      !.send_buffer[from][nack_seq] =
                          [pp EXCEPT !.retry_count = (@ + 1) % CountMod, !.age = 0],
                      !.connection_stats = Put(@, from,
                          [Get(@, from, ConnectionStats_new) EXCEPT !.retransmissions = @ + 1])],
             out |-> Append(R.out, [dst |-> from, bytes |-> pp.data])]
    ELSE R

\* Rudpbase::handle_data_nack_packet, one requested sequence
nack_one(R, from, nack_seq) ==
    IF Has(R.e.send_buffer, from) /\ Has(R.e.send_buffer[from], nack_seq)
    THEN LET pp == R.e.send_buffer[from][nack_seq]
         IN [e |-> [R.e EXCEPT
                      !.send_buffer[from][nack_seq] =
                          [pp EXCEPT !.retry_count = (@ + 1) % CountMod, !.age = 0],
                      !.connection_stats = Put(@, from,
                          [Get(@, from, ConnectionStats_new) EXCEPT !.retransmissions = @ + 1])],
             out |-> Append(R.out, [dst |-> from, bytes |-> pp.data])]
    ELSE R

RECURSIVE nack_all(_, _, _)
nack_all(R, from, nack_seqs) ==
    IF nack_seqs = <<>> THEN R
    ELSE nack_all(nack_one(R, from, Head(nack_seqs)), from, Tail(nack_seqs))

\* Rudpbase::handle_data_nack_packet
handle_data_nack_packet(E, packet, from) ==
    LET nack_packet == seqs_deserialize(packet.data)
        R == IF nack_packet[1] THEN nack_all([e |-> E, out |-> <<>>], from, nack_packet[2])
             ELSE [e |-> E, out |-> <<>>]
    IN [e |-> R.e, out |-> R.out, result |-> "None", data |-> NoData]

\* Rudpbase::handle_ping_packet
handle_ping_packet(E, packet, from) ==
    LET ping_ack == [packet_type |-> PT_PingAck,
                     security_code |-> calculate(PT_PingAck, packet.seq, packet.data),
                     seq |-> packet.seq, data |-> packet.data]
    IN [e |-> E, out |-> <<[dst |-> from, bytes |-> serialize(ping_ack)]>>,
        result |-> "None", data |-> NoData]

\* Rudpbase::handle_ping_ack_packet (PingPacket::deserialize needs 8 bytes; the
\* sample is the age of the echoed timestamp)
handle_ping_ack_packet(E, packet, from) ==
    LET E1 == IF packet.data.len >= PingBytes
              THEN LET rtt == packet.data.body[1]
                   IN [E EXCEPT !.rtt_stats = Put(@, from,
                                    update_rtt(Get(@, from, RttStats_new), rtt)),
                                !.connection_stats = Put(@, from,
                                    stats_update_rtt(Get(@, from, ConnectionStats_new), rtt))]
              ELSE E
    IN [e |-> IF Has(E1.connection_states, from)
              THEN [E1 EXCEPT !.connection_states[from] = mark_ping_received(@)]
              ELSE E1,
        out |-> <<>>, result |-> "None", data |-> NoData]

\* Rudpbase::handle_close_packet
handle_close_packet(E, packet, from) ==
    LET close_ack == [packet_type |-> PT_CloseAck,
                      security_code |-> calculate(PT_CloseAck, packet.seq, packet.data),
                      seq |-> packet.seq, data |-> NoData]
    IN [e |-> cleanup_connection(E, from),
        out |-> <<[dst |-> from, bytes |-> serialize(close_ack)]>>,
        result |-> "None", data |-> NoData]

\* handle_close_ack_packet as it would be if a CloseAck were only taken note of
handle_close_ack_packet_ignored(E, packet, from) ==
    [e |-> E, out |-> <<>>, result |-> "None", data |-> NoData]

\* Rudpbase::handle_close_ack_packet
handle_close_ack_packet(E, packet, from) ==
    [e |-> cleanup_connection(E, from), out |-> <<>>, result |-> "None", data |-> NoData]

\* handle_received_packet as it would be if the activity were noted before the
\* security code is verified
handle_received_packet_early(E, packet_data, from) ==
    LET packet == parse(packet_data)
        E1 == IF Has(E.connection_states, from)
              THEN [E EXCEPT !.connection_states[from] = update_activity(@)]
              ELSE E
    IN IF packet.err # ""
       THEN [e |-> E, out |-> <<>>, result |-> packet.err, data |-> NoData]
       ELSE IF ~verify(packet.packet_type, packet.seq, packet.data, packet.security_code)
       THEN [e |-> E1, out |-> <<>>, result |-> "Security", data |-> NoData]
       ELSE CASE packet.packet_type = PT_Data -> handle_data_packet(E1, packet, from)
              [] packet.packet_type = PT_DataAck -> handle_data_ack_packet(E1, packet, from)
              [] packet.packet_type = PT_DataNack -> handle_data_nack_packet(E1, packet, from)
              [] packet.packet_type = PT_Ping -> handle_ping_packet(E1, packet, from)
              [] packet.packet_type = PT_PingAck -> handle_ping_ack_packet(E1, packet, from)
              [] packet.packet_type = PT_Close -> handle_close_packet(E1, packet, from)
              [] packet.packet_type = PT_CloseAck -> handle_close_ack_packet(E1, packet, from)

\* Rudpbase::handle_received_packet
handle_received_packet(E, packet_data, from) ==
    LET packet == parse(packet_data)
    IN IF packet.err # ""
       THEN [e |-> E, out |-> <<>>, result |-> packet.err, data |-> NoData]
       ELSE IF ~verify(packet.packet_type, packet.seq, packet.data, packet.security_code)
       THEN [e |-> E, out |-> <<>>, result |-> "Security", data |-> NoData]
       ELSE LET E1 == IF Has(E.connection_states, from)
                      THEN [E EXCEPT !.connection_states[from] = update_activity(@)]
                      ELSE E
            IN CASE packet.packet_type = PT_Data -> handle_data_packet(E1, packet, from)
                 [] packet.packet_type = PT_DataAck -> handle_data_ack_packet(E1, packet, from)
                 [] packet.packet_type = PT_DataNack -> handle_data_nack_packet(E1, packet, from)
                 [] packet.packet_type = PT_Ping -> handle_ping_packet(E1, packet, from)
                 [] packet.packet_type = PT_PingAck -> handle_ping_ack_packet(E1, packet, from)
                 [] packet.packet_type = PT_Close -> handle_close_packet(E1, packet, from)
                 [] packet.packet_type = PT_CloseAck -> handle_close_ack_packet(E1, packet, from)

\* Rudpbase::recv, given the datagram recv_from yields
recv(E, datagram, from) == handle_received_packet(E, recv_from(datagram), from)

\* Rudpbase::handle_retransmissions, the packets of one address:
\* those whose timeout has elapsed
expired_seqs(packets) == {s \in DOMAIN packets : should_retry(packets[s])}

\* abandoned_seqs as it would be if a frame were given up one retry early
abandoned_seqs_early(packets) ==
    {s \in DOMAIN packets :
        should_retry(packets[s]) /\ packets[s].retry_count >= MaxRetry - 1}

\* ... of these, the ones that have used up their retries and are removed
abandoned_seqs(packets) ==
    {s \in expired_seqs(packets) : packets[s].retry_count >= MaxRetry}

\* ... and the ones sent again
retried_seqs(packets) == expired_seqs(packets) \ abandoned_seqs(packets)

\* ... the packets left, the retried ones with their timeout doubled
after_retry(packets) ==
    [s \in (DOMAIN packets) \ abandoned_seqs(packets) |->
        IF s \in retried_seqs(packets) THEN retry(packets[s], packets[s].rto * 2)
        ELSE packets[s]]

RECURSIVE retransmit_out(_, _)
retransmit_out(send_buffer, addrs) ==
    IF addrs = {} THEN <<>>
    ELSE LET a == CHOOSE x \in addrs : TRUE
             seqs == SetToSeq(retried_seqs(send_buffer[a]))
         IN [i \in 1..Len(seqs) |-> [dst |-> a, bytes |-> send_buffer[a][seqs[i]].data]]
            \o retransmit_out(send_buffer, addrs \ {a})

\* Rudpbase::handle_retransmissions
handle_retransmissions(E) ==
    LET sb == E.send_buffer
        retried == {a \in DOMAIN sb : retried_seqs(sb[a]) # {}}
        kept == {a \in DOMAIN sb : DOMAIN after_retry(sb[a]) # {}}
        stats1 == [a \in (DOMAIN E.connection_stats) \cup retried |->
                      IF a \in retried
                      THEN [Get(E.connection_stats, a, ConnectionStats_new) EXCEPT
                               !.retransmissions = @ + Cardinality(retried_seqs(sb[a]))]
                      ELSE E.connection_stats[a]]
        stats2 == [a \in (DOMAIN stats1) \cup kept |->
                      IF a \in kept
                      THEN [Get(stats1, a, ConnectionStats_new) EXCEPT !.packets_lost = @ + 1]
                      ELSE stats1[a]]
    IN [e |-> [E EXCEPT
                 !.send_buffer = [a \in kept |-> after_retry(sb[a])],
                 !.connection_states = [a \in DOMAIN @ |->
                     IF a \in kept THEN mark_packet_lost(@[a]) ELSE @[a]],
                 !.connection_stats = stats2],
        out |-> retransmit_out(sb, DOMAIN sb)]

RECURSIVE acks_out(_, _, _)
acks_out(pending_acks, next_seq, targets) ==
    IF targets = {} THEN <<>>
    ELSE LET t == CHOOSE x \in targets : TRUE
             seq == get_next_seq(next_seq, t)[1]
             data == seqs_serialize(pending_acks[t])
             packet == [packet_type |-> PT_DataAck,
                        security_code |-> calculate(PT_DataAck, seq, data),
                        seq |-> seq, data |-> data]
         IN <<[dst |-> t, bytes |-> serialize(packet)]>>
            \o acks_out(pending_acks, next_seq, targets \ {t})

\* send_pending_acks as it would be if a DataAck did not take a sequence of its own
send_pending_acks_unnumbered(E) ==
    LET targets == {t \in DOMAIN E.pending_acks : E.pending_acks[t] # <<>>}
    IN [e |-> [E EXCEPT !.pending_acks = EmptyMap],
        out |-> acks_out(E.pending_acks, E.next_seq, targets)]

\* Rudpbase::send_pending_acks
send_pending_acks(E) ==
    LET targets == {t \in DOMAIN E.pending_acks : E.pending_acks[t] # <<>>}
    IN [e |-> [E EXCEPT
                 !.pending_acks = EmptyMap,
                 !.next_seq = [a \in (DOMAIN @) \cup targets |->
                     IF a \in targets THEN get_next_seq(@, a)[2][a] ELSE @[a]]],
        out |-> acks_out(E.pending_acks, E.next_seq, targets)]

RECURSIVE pings_out(_, _)
pings_out(next_seq, addrs) ==
    IF addrs = {} THEN <<>>
    ELSE LET a == CHOOSE x \in addrs : TRUE
             seq == get_next_seq(next_seq, a)[1]
             data == ping_serialize(0)
             packet == [packet_type |-> PT_Ping,
                        security_code |-> calculate(PT_Ping, seq, data),
                        seq |-> seq, data |-> data]
         IN <<[dst |-> a, bytes |-> serialize(packet)]>> \o pings_out(next_seq, addrs \ {a})

RECURSIVE cleanup_all(_, _)
cleanup_all(E, addrs) ==
    IF addrs = {} THEN E
    ELSE LET a == CHOOSE x \in addrs : TRUE
         IN cleanup_all(cleanup_connection(E, a), addrs \ {a})

\* Rudpbase::check_connection_health
check_connection_health(E) ==
    LET cs == E.connection_states
        connections_to_ping == {a \in DOMAIN cs : should_ping(cs[a])}
        connections_to_close == {a \in DOMAIN cs : ~should_ping(cs[a]) /\ should_close(cs[a])}
        pinged == [E EXCEPT
                     !.next_seq = [a \in (DOMAIN @) \cup connections_to_ping |->
                         IF a \in connections_to_ping THEN get_next_seq(@, a)[2][a] ELSE @[a]],
                     !.connection_states = [a \in DOMAIN @ |->
                         IF a \in connections_to_ping THEN mark_ping_sent(@[a]) ELSE @[a]]]
    IN [e |-> cleanup_all(pinged, connections_to_close),
        out |-> pings_out(E.next_seq, connections_to_ping)]

\* Rudpbase::periodic_cleanup, with the assignment to last_cleanup that follows it
periodic_cleanup(E) ==
    LET cleared == [a \in DOMAIN E.recv_acks |->
                       IF Has(E.next_seq, a) /\ E.next_seq[a] = 0 THEN {} ELSE E.recv_acks[a]]
    IN [E EXCEPT !.recv_acks = [a \in {x \in DOMAIN cleared : cleared[x] # {}} |-> cleared[a]],
                 !.last_cleanup = 0]

\* Rudpbase::tick; .abandoned is what the retransmission step gave up on
tick(E) ==
    LET R == handle_retransmissions(E)
        A == send_pending_acks(R.e)
        H == check_connection_health(A.e)
    IN [e |-> IF E.last_cleanup > CleanupMs THEN periodic_cleanup(H.e) ELSE H.e,
        out |-> R.out \o A.out \o H.out,
        abandoned |-> UNION {{<<a, s>> : s \in abandoned_seqs(E.send_buffer[a])} :
                             a \in DOMAIN E.send_buffer}]

RECURSIVE closes_out(_, _)
closes_out(next_seq, addrs) ==
    IF addrs = {} THEN <<>>
    ELSE LET a == CHOOSE x \in addrs : TRUE
             seq == get_next_seq(next_seq, a)[1]
             packet == [packet_type |-> PT_Close,
                        security_code |-> calculate(PT_Close, seq, NoData),
                        seq |-> seq, data |-> NoData]
         IN <<[dst |-> a, bytes |-> serialize(packet)]>> \o closes_out(next_seq, addrs \ {a})

\* close as it would be if the sequence counters outlived it
close_counters_kept(E) ==
    [e |-> [Rudpbase_new EXCEPT !.last_cleanup = E.last_cleanup, !.next_seq = E.next_seq],
     out |-> closes_out(E.next_seq, DOMAIN E.connection_states)]

\* Rudpbase::close with send_close_packet
close(E) ==
    [e |-> [Rudpbase_new EXCEPT !.last_cleanup = E.last_cleanup],
     out |-> closes_out(E.next_seq, DOMAIN E.connection_states)]

-----------------------------------------------------------------------------
(* The two endpoints, the datagram service between them, and the history *)

\* The payload ids in the retransmit map of an engine
PendingIds(E) ==
    {E.send_buffer[a][s].data[4].body[1] : <<a, s>> \in
        UNION {{<<x, y>> : y \in DOMAIN E.send_buffer[x]} : x \in DOMAIN E.send_buffer}}

\* hist with every Data frame of out counted as one more transmission
RECURSIVE Transmitted(_, _)
Transmitted(h, out) ==
    IF out = <<>> THEN h
    ELSE LET b == Head(out).bytes
         IN Transmitted(IF b[1] = PT_Data THEN [h EXCEPT ![b[4].body[1]].tx = @ + 1] ELSE h,
                        Tail(out))

\* hist after a step of endpoint n: a payload that left n's retransmit map gets
\* its fate, "abandoned" if the retransmission step removed it and why otherwise
Settled(h, n, E, abandoned, why) ==
    [i \in 1..Len(h) |->
        IF h[i].src = n /\ h[i].fate = "pending" /\ i \notin PendingIds(E)
        THEN [h[i] EXCEPT !.fate = IF <<h[i].dst, h[i].seq>> \in abandoned
                                   THEN "abandoned" ELSE why]
        ELSE h[i]]

\* The datagrams of out, sent by n, put on the wire
Wire(b, n, out) ==
    BagAddAll(b, [i \in 1..Len(out) |-> [src |-> n, dst |-> out[i].dst, bytes |-> out[i].bytes]])

NoCall == [node |-> "", kind |-> -1, from |-> "", result |-> "", data |-> NoData]

\* No frame handed to the codec yet
NoPacket == [packet_type |-> -1, security_code |-> 0, seq |-> 0, data |-> <<>>]

NotParsed == [err |-> "-"]

NoFrame == [op |-> "", packet |-> NoPacket, bytes |-> <<>>, tampered |-> FALSE,
            parsed |-> NotParsed]

\* No RttStats is being driven on its own
NoController == [rs |-> RttStats_new, was |-> RttStats_new, op |-> "", arg |-> 0,
                 panicked |-> FALSE, overflow_checks |-> FALSE, calls |-> 0]

\* The callers of a pool
Context == {"c1", "c2"}

\* A pool just built, nobody calling it yet
PoolWith(P, calls) ==
    [bp |-> P, mutex |-> "", made |-> 0, calls |-> calls,
     pc |-> [c \in Context |-> "idle"],
     seen |-> [c \in Context |-> <<>>],
     arg |-> [c \in Context |-> 0],
     held |-> [c \in Context |-> <<>>],
     call |-> [ctx |-> "", op |-> "", result |-> "", hit |-> FALSE,
               buffer |-> PooledBuffer(0)]]

\* The pool Rudpbase::new builds; the engine specifications leave it alone (the
\* pool is followed in SpecPool)
EnginePool ==
    PoolWith(warmup(BufferPool_new(DEFAULT_INITIAL_CAPACITY),
                    BufferPool_new(DEFAULT_INITIAL_CAPACITY).free_buffers,
                    DEFAULT_INITIAL_CAPACITY), 0)

\* Two endpoints just constructed, nothing in flight, and what the environment
\* may do
Start(sends, drops, dups, closes, nacks, advances) ==
    /\ eng = [n \in Node |-> Rudpbase_new]
    /\ net = EmptyMap
    /\ ret = NoCall
    /\ hist = <<>>
    /\ cnt = [send |-> sends, drop |-> drops, dup |-> dups, close |-> closes,
              nack |-> nacks, advance |-> advances, ticked |-> {}]
    /\ pool = EnginePool
    /\ codec = NoFrame
    /\ cc = NoController

Init == Start(MaxSend, MaxDrop, 0, 0, 0, MaxAdvance)

\* n calls send(buffer, t) with a payload of len bytes; the endpoints being
\* alike, the one that sends first is called A
Send(n, t, len, sent_ok) ==
    /\ cnt.send > 0
    /\ hist = <<>> => n = "A"
    /\ LET id == Len(hist) + 1
           r == send(eng[n], UserData(id, len), t, sent_ok)
       IN /\ eng' = [eng EXCEPT ![n] = r.e]
          /\ net' = Wire(net, n, r.out)
          /\ hist' = Append(hist, [src |-> n, dst |-> t, len |-> len,
                                   seq |-> Get(eng[n].next_seq, t, 0),
                                   accepted |-> sent_ok,
                                   tx |-> IF sent_ok THEN 1 ELSE 0,
                                   dropped |-> 0, delivered |-> 0, fate |-> "pending"])
    /\ UNCHANGED ret
    /\ cnt' = [cnt EXCEPT !.send = @ - 1, !.ticked = @ \ {n}]
    /\ UNCHANGED <<pool, codec, cc>>

\* n calls recv() and the socket yields datagram dg
RecvDatagram(n, dg) ==
    /\ dg \in DOMAIN net
    /\ dg.dst = n
    /\ LET r == recv(eng[n], dg.bytes, dg.src)
           why == IF dg.bytes[1] = PT_DataAck THEN "acked" ELSE "torn"
           h == Settled(Transmitted(hist, r.out), n, r.e, {}, why)
       IN /\ eng' = [eng EXCEPT ![n] = r.e]
          /\ net' = Wire(BagDel(net, dg), n, r.out)
          /\ ret' = [node |-> n, kind |-> dg.bytes[1], from |-> dg.src,
                     result |-> r.result, data |-> r.data]
          /\ hist' = IF r.result = "Data"
                     THEN [h EXCEPT ![r.data.body[1]].delivered = @ + 1]
                     ELSE h
    /\ cnt' = [cnt EXCEPT !.ticked = @ \ {n}]
    /\ UNCHANGED <<pool, codec, cc>>

Recv(n) == \E dg \in DOMAIN net : RecvDatagram(n, dg)

\* n calls tick()
Tick(n) ==
    /\ n \notin cnt.ticked
    /\ LET r == tick(eng[n])
       IN /\ eng' = [eng EXCEPT ![n] = r.e]
          /\ net' = Wire(net, n, r.out)
          /\ hist' = Settled(Transmitted(hist, r.out), n, r.e, r.abandoned, "torn")
    /\ UNCHANGED ret
    /\ cnt' = [cnt EXCEPT !.ticked = IF tick(eng[n]).e.send_buffer = EmptyMap
                                     THEN @ ELSE @ \cup {n}]
    /\ UNCHANGED <<pool, codec, cc>>

\* n calls close()
Close(n) ==
    /\ cnt.close > 0
    /\ eng[n] # Rudpbase_new
    /\ LET r == close(eng[n])
       IN /\ eng' = [eng EXCEPT ![n] = r.e]
          /\ net' = Wire(net, n, r.out)
          /\ hist' = Settled(hist, n, r.e, {}, "torn")
    /\ UNCHANGED ret
    /\ cnt' = [cnt EXCEPT !.close = @ - 1, !.ticked = @ \ {n}]
    /\ UNCHANGED <<pool, codec, cc>>

\* The network loses one copy of a datagram
Drop(dg) ==
    /\ cnt.drop > 0
    /\ dg \in DOMAIN net
    /\ net' = BagDel(net, dg)
    /\ hist' = IF dg.bytes[1] = PT_Data
               THEN [hist EXCEPT ![dg.bytes[4].body[1]].dropped = @ + 1]
               ELSE hist
    /\ cnt' = [cnt EXCEPT !.drop = @ - 1]
    /\ UNCHANGED <<eng, ret>>
    /\ UNCHANGED <<pool, codec, cc>>

\* The network duplicates a datagram
Duplicate(dg) ==
    /\ cnt.dup > 0
    /\ dg \in DOMAIN net
    /\ net' = BagAdd(net, dg)
    /\ cnt' = [cnt EXCEPT !.dup = @ - 1]
    /\ UNCHANGED <<eng, ret, hist, pool, codec, cc>>

\* An age after d more milliseconds; it is only ever compared with a threshold
\* below cap
Older(age, d, cap) == IF age >= cap THEN age ELSE Min(age + d, cap)

\* A datagram in flight after d milliseconds: the timestamp a Ping or PingAck
\* carries is d older (that of a frame no longer as it was sent is never read)
OlderDatagram(dg, d) ==
    IF dg.bytes[1] \in {PT_Ping, PT_PingAck} /\ Intact(dg.bytes)
    THEN LET data == ping_serialize(Older(dg.bytes[4].body[1], d, MaxAge))
         IN [dg EXCEPT !.bytes = <<dg.bytes[1], calculate(dg.bytes[1], dg.bytes[3], data),
                                   dg.bytes[3], data>>]
    ELSE dg

\* An engine after d milliseconds
OlderEngine(E, d) ==
    [E EXCEPT
       !.send_buffer = [a \in DOMAIN @ |-> [s \in DOMAIN @[a] |->
           [@[a][s] EXCEPT !.age = @ + d]]],
       !.connection_states = [a \in DOMAIN @ |->
           [@[a] EXCEPT !.last_activity = Older(@, d, IdleMs + 1),
                        !.ping_sent = IF @ = -1 THEN -1 ELSE Older(@, d, PingTimeoutMs + 1)]],
       !.last_cleanup = Older(@, d, CleanupMs + 1)]

\* The times left until the retransmission timeouts still running elapse
Deadlines ==
    UNION {UNION {{eng[n].send_buffer[a][s].rto - eng[n].send_buffer[a][s].age :
                      s \in {x \in DOMAIN eng[n].send_buffer[a] :
                                ~should_retry(eng[n].send_buffer[a][x])}} :
                  a \in DOMAIN eng[n].send_buffer} : n \in Node}

\* Time passes until the next retransmission timeout elapses
Advance ==
    /\ cnt.advance > 0
    /\ Deadlines # {}
    /\ LET d == CHOOSE x \in Deadlines : \A y \in Deadlines : x <= y
       IN /\ eng' = [n \in Node |-> OlderEngine(eng[n], d)]
          /\ net' = [x \in {OlderDatagram(dg, d) : dg \in DOMAIN net} |->
                        Copies(net, {dg \in DOMAIN net : OlderDatagram(dg, d) = x})]
    /\ cnt' = [cnt EXCEPT !.advance = @ - 1, !.ticked = {}]
    /\ UNCHANGED <<ret, hist, pool, codec, cc>>

Next ==
    \/ \E n \in Node, t \in Node, len \in PayloadLens :
           t # n /\ Send(n, t, len, TRUE)
    \/ \E n \in Node : Recv(n)
    \/ \E n \in Node : Tick(n)
    \/ \E dg \in DOMAIN net : Drop(dg)
    \/ Advance

Spec == Init /\ [][Next]_vars

\* The peer p of n emits a DataNack that asks n, which holds frames for p, for
\* the sequences seqs again
InjectNack(n, p, seqs) ==
    /\ cnt.nack > 0
    /\ Has(eng[n].send_buffer, p)
    /\ LET data == seqs_serialize(seqs)
           packet == [packet_type |-> PT_DataNack,
                      security_code |-> calculate(PT_DataNack, 0, data),
                      seq |-> 0, data |-> data]
       IN net' = BagAdd(net, [src |-> p, dst |-> n, bytes |-> serialize(packet)])
    /\ cnt' = [cnt EXCEPT !.nack = @ - 1]
    /\ UNCHANGED <<eng, ret, hist, pool, codec, cc>>

\* One frame followed through its retransmissions, the peer also nacking and
\* the network losing nothing
InitNack == Start(RetrySend, 0, 0, 0, MaxNack, NackAdvance)

NextNack ==
    \/ \E n \in Node, t \in Node : t # n /\ Send(n, t, ShortLen, TRUE)
    \/ \E n \in Node : Recv(n)
    \/ \E n \in Node : Tick(n)
    \/ \E n \in Node, p \in Node : p # n /\ InjectNack(n, p, <<0>>)
    \/ Advance

SpecNack == InitNack /\ [][NextNack]_vars

\* The same with close(): short payloads, no duplication
InitClose == Start(CloseSend, CloseDrop, 0, MaxClose, 0, CloseAdvance)

NextClose ==
    \/ \E n \in Node, t \in Node : t # n /\ Send(n, t, ShortLen, TRUE)
    \/ \E n \in Node : Recv(n)
    \/ \E n \in Node : Tick(n)
    \/ \E n \in Node : Close(n)
    \/ \E dg \in DOMAIN net : Drop(dg)
    \/ Advance

SpecClose == InitClose /\ [][NextClose]_vars

\* One frame followed through its retransmissions, the network also duplicating
InitRetry == Start(RetrySend, RetryDrop, MaxDup, 0, 0, RetryAdvance)

NextRetry ==
    \/ \E n \in Node, t \in Node, len \in PayloadLens :
           t # n /\ Send(n, t, len, TRUE)
    \/ \E n \in Node : Recv(n)
    \/ \E n \in Node : Tick(n)
    \/ \E dg \in DOMAIN net : Drop(dg)
    \/ \E dg \in DOMAIN net : Duplicate(dg)
    \/ Advance

SpecRetry == InitRetry /\ [][NextRetry]_vars

\* Silence: once nothing is awaiting acknowledgement, time passes in steps just
\* longer than the idle threshold (and so longer than a ping may stay
\* unanswered)
IdleWait == IdleMs + 1

\* An engine after d milliseconds of silence (a pending frame older than every
\* timeout stops ageing)
SilentEngine(E, d) ==
    LET O == OlderEngine(E, d)
    IN [O EXCEPT !.send_buffer = [a \in DOMAIN @ |-> [s \in DOMAIN @[a] |->
                     [@[a][s] EXCEPT !.age = Min(@, MaxAge)]]]]

Elapse ==
    /\ \A n \in Node : eng[n].send_buffer = EmptyMap
    /\ \A n \in Node : \A a \in DOMAIN eng[n].next_seq : eng[n].next_seq[a] < IdleMaxSeq
    /\ eng' = [n \in Node |-> SilentEngine(eng[n], IdleWait)]
    /\ net' = [x \in {OlderDatagram(dg, IdleWait) : dg \in DOMAIN net} |->
                  Copies(net, {dg \in DOMAIN net : OlderDatagram(dg, IdleWait) = x})]
    /\ cnt' = [cnt EXCEPT !.ticked = {}]
    /\ UNCHANGED <<ret, hist, pool, codec, cc>>

InitIdle == Start(IdleSend, IdleDrop, 0, 0, 0, 0)

NextIdle ==
    \/ \E n \in Node : \E t \in Node \ {n} : Send(n, t, ShortLen, TRUE)
    \/ \E n \in Node : Recv(n)
    \/ \E n \in Node : Tick(n)
    \/ \E dg \in DOMAIN net : Drop(dg)
    \/ Elapse

SpecIdle == InitIdle /\ [][NextIdle]_vars

\* The sender's counter at the wrap.  A has sent B one payload (sequence 0,
\* delivered and acknowledged) and then, idle, 2^32 - 2 Pings, each answered
\* within a millisecond: its counter toward B stands at u32::MAX.  B has sent
\* the one DataAck and has not ticked since.
U32Max == 0 - 1

SettledRttMs == 1

WrapSender ==
    [Rudpbase_new EXCEPT
       !.next_seq = Put(EmptyMap, "B", U32Max),
       !.rtt_stats = Put(EmptyMap, "B",
           [RttStats_new EXCEPT !.srtt = SettledRttMs, !.rttvar = 0]),
       !.connection_stats = Put(EmptyMap, "B",
           [ConnectionStats_new EXCEPT !.packets_sent = 1,
                                       !.avg_rtt = SettledRttMs * 1000]),
       !.connection_states = Put(EmptyMap, "B", mark_ping_received(ConnectionState_new))]

WrapReceiver ==
    [Rudpbase_new EXCEPT
       !.recv_acks = Put(EmptyMap, "A", {0}),
       !.next_seq = Put(EmptyMap, "A", 1),
       !.connection_stats = Put(EmptyMap, "A",
           [ConnectionStats_new EXCEPT !.packets_received = 1])]

InitWrap ==
    /\ eng = [n \in Node |-> IF n = "A" THEN WrapSender ELSE WrapReceiver]
    /\ net = EmptyMap
    /\ ret = NoCall
    /\ hist = <<>>
    /\ cnt = [send |-> WrapSend, drop |-> 0, dup |-> 0, close |-> 0, nack |-> 0,
              advance |-> WrapAdvance, ticked |-> {}]
    /\ pool = EnginePool
    /\ codec = NoFrame
    /\ cc = NoController

\* A's counter toward B has gone from u32::MAX to 0
Wrapped == eng["A"].next_seq["B"] >= 0

\* Once the counter has wrapped, more than the cleanup interval passes
Lapse ==
    /\ cnt.advance > 0
    /\ Wrapped
    /\ eng' = [n \in Node |-> OlderEngine(eng[n], CleanupMs + 1)]
    /\ net' = [x \in {OlderDatagram(dg, CleanupMs + 1) : dg \in DOMAIN net} |->
                  Copies(net, {dg \in DOMAIN net : OlderDatagram(dg, CleanupMs + 1) = x})]
    /\ cnt' = [cnt EXCEPT !.advance = @ - 1, !.ticked = {}]
    /\ UNCHANGED <<ret, hist, pool, codec, cc>>

NextWrap ==
    \/ Send("A", "B", ShortLen, TRUE)
    \/ \E n \in Node : Recv(n)
    \/ \E n \in Node : Tick(n)
    \/ Lapse

SpecWrap == InitWrap /\ [][NextWrap]_vars

\* The same where the application keeps calling tick() and time keeps passing;
\* nothing obliges the peer to answer or the network to deliver
SpecIdleFair ==
    /\ SpecIdle
    /\ \A n \in Node : WF_vars(Tick(n))
    /\ WF_vars(Elapse)

\* A shared pool and the contexts that call it.  A call that takes the lock
\* is two steps: the lock is taken and the free list found, then the work is
\* done on what was found and the lock released.

\* c calls get_write_buffer(): pool.lock()
GetWriteBufferLock(c) ==
    /\ pool.calls > 0
    /\ pool.pc[c] = "idle"
    /\ Len(pool.held[c]) < MaxHeld
    /\ lock(pool.mutex)
    /\ pool' = [pool EXCEPT !.mutex = c, !.pc[c] = "get_write_buffer",
                            !.seen[c] = pool.bp.free_buffers, !.calls = @ - 1]
    /\ UNCHANGED <<eng, net, ret, hist, cnt, codec, cc>>

\* ... pool.get_buffer(), the PooledBuffer returned and the guard dropped
GetWriteBufferReturn(c) ==
    /\ pool.pc[c] = "get_write_buffer"
    /\ LET r == get_buffer(pool.bp, pool.seen[c], pool.made)
       IN pool' = [pool EXCEPT
                     !.bp = r.pool, !.made = r.made,
                     !.mutex = IF @ = c THEN "" ELSE @,
                     !.pc[c] = "idle",
                     !.held[c] = Append(@, PooledBuffer(r.buffer)),
                     !.call = [ctx |-> c, op |-> "get_write_buffer", result |-> "Ok",
                               hit |-> pool.seen[c] # <<>>,
                               buffer |-> PooledBuffer(r.buffer)]]
    /\ UNCHANGED <<eng, net, ret, hist, cnt, codec, cc>>

\* c calls set_data_len(len) on the i-th buffer it holds
SetDataLen(c, i, len) ==
    /\ pool.calls > 0
    /\ pool.pc[c] = "idle"
    /\ i \in DOMAIN pool.held[c]
    /\ LET r == set_data_len(pool.held[c][i], len)
       IN pool' = [pool EXCEPT
                     !.held[c][i] = r.buffer, !.calls = @ - 1,
                     !.call = [ctx |-> c, op |-> "set_data_len", result |-> r.result,
                               hit |-> FALSE, buffer |-> r.buffer]]
    /\ UNCHANGED <<eng, net, ret, hist, cnt, codec, cc>>

\* c lets go of the i-th buffer it holds: Drop::drop, self.pool.lock()
DropLock(c, i) ==
    /\ pool.pc[c] = "idle"
    /\ i \in DOMAIN pool.held[c]
    /\ lock(pool.mutex)
    /\ pool' = [pool EXCEPT !.mutex = c, !.pc[c] = "drop", !.arg[c] = i,
                            !.seen[c] = pool.bp.free_buffers]
    /\ UNCHANGED <<eng, net, ret, hist, cnt, codec, cc>>

\* ... the buffer pushed onto the free list or discarded, the guard dropped
DropReturn(c) ==
    /\ pool.pc[c] = "drop"
    /\ LET i == pool.arg[c]
           buffer == pool.held[c][i]
       IN pool' = [pool EXCEPT
                     !.bp = drop(@, pool.seen[c], buffer.raw_buffer),
                     !.mutex = IF @ = c THEN "" ELSE @,
                     !.pc[c] = "idle", !.arg[c] = 0,
                     !.held[c] = SubSeq(@, 1, i - 1) \o SubSeq(@, i + 1, Len(@)),
                     !.call = [ctx |-> c, op |-> "drop", result |-> "",
                               hit |-> FreeLen(pool.seen[c]) < MAX_POOL_CAPACITY,
                               buffer |-> [buffer EXCEPT !.data_len = 0]]]
    /\ UNCHANGED <<eng, net, ret, hist, cnt, codec, cc>>

\* c calls warmup(count): pool.lock()
WarmupLock(c, count) ==
    /\ pool.calls > 0
    /\ pool.pc[c] = "idle"
    /\ lock(pool.mutex)
    /\ pool' = [pool EXCEPT !.mutex = c, !.pc[c] = "warmup", !.arg[c] = count,
                            !.seen[c] = pool.bp.free_buffers, !.calls = @ - 1]
    /\ UNCHANGED <<eng, net, ret, hist, cnt, codec, cc>>

\* ... the free list filled, the guard dropped
WarmupReturn(c) ==
    /\ pool.pc[c] = "warmup"
    /\ pool' = [pool EXCEPT
                  !.bp = warmup(@, pool.seen[c], pool.arg[c]),
                  !.mutex = IF @ = c THEN "" ELSE @,
                  !.pc[c] = "idle", !.arg[c] = 0,
                  !.call = [ctx |-> c, op |-> "warmup", result |-> "Ok",
                            hit |-> FALSE, buffer |-> PooledBuffer(0)]]
    /\ UNCHANGED <<eng, net, ret, hist, cnt, codec, cc>>

\* SharedBufferPool::new(initial_capacity) and ::default()
InitialCapacities ==
    {0, 1, DEFAULT_INITIAL_CAPACITY, MAX_POOL_CAPACITY - 1, MAX_POOL_CAPACITY,
     MAX_POOL_CAPACITY + 1}

WarmupCounts == {1, MAX_POOL_CAPACITY}

\* The lengths handed to set_data_len
DataLens == {ShortLen, MAX_BUFFER_SIZE, MAX_BUFFER_SIZE + 1, DataCapacity, DataCapacity + 1}

InitPool ==
    /\ eng = [n \in Node |-> Rudpbase_new]
    /\ net = EmptyMap
    /\ ret = NoCall
    /\ hist = <<>>
    /\ cnt = [send |-> 0, drop |-> 0, dup |-> 0, close |-> 0, nack |-> 0,
              advance |-> 0, ticked |-> {}]
    /\ \E initial_capacity \in InitialCapacities :
           pool = PoolWith(BufferPool_new(initial_capacity), MaxPoolCalls)
    /\ codec = NoFrame
    /\ cc = NoController

NextPool ==
    \/ \E c \in Context : GetWriteBufferLock(c)
    \/ \E c \in Context : GetWriteBufferReturn(c)
    \/ \E c \in Context : \E i \in 1..MaxHeld : \E len \in DataLens : SetDataLen(c, i, len)
    \/ \E c \in Context : \E i \in 1..MaxHeld : DropLock(c, i)
    \/ \E c \in Context : DropReturn(c)
    \/ \E c \in Context : \E count \in WarmupCounts : WarmupLock(c, count)
    \/ \E c \in Context : WarmupReturn(c)

SpecPool == InitPool /\ [][NextPool]_vars

\* One frame through the codec: a RawPacket serialized, or a datagram as it
\* comes, then parsed; a serialized frame may have a byte of its security code
\* changed on the way.

\* The u32 values tried for the security code and the sequence
U32Samples == {0, 1, 255, 256, 65536, 305419896, I32Max, (0 - I32Max) - 1, U32Max}

\* A payload of n bytes
Payload(n) == [i \in 1..n |-> (i * 7) % 256]

Payloads == {Payload(0), <<0>>, <<255, 0>>, Payload(ShortLen), Payload(MAX_BUFFER_SIZE)}

Frames ==
    [packet_type : PT_Ping..PT_CloseAck, security_code : U32Samples,
     seq : U32Samples, data : Payloads]

\* Datagrams as they come: a first byte, then the header and the start of the
\* payload of the frame in test_raw_packet_parsing, cut to any length
Datagrams ==
    {SubSeq(<<tag, 18, 52, 86, 120, 0, 0, 0, 100, 72, 101>>, 1, n) :
        tag \in (0..8) \cup {255}, n \in 0..MaxInput}

SerializeFrame(packet) ==
    /\ codec = NoFrame
    /\ codec' = [codec EXCEPT !.op = "serialize", !.packet = packet,
                              !.bytes = RawPacket_serialize(packet)]
    /\ UNCHANGED <<eng, net, ret, hist, cnt, pool, cc>>

Arrive(bytes) ==
    /\ codec = NoFrame
    /\ codec' = [codec EXCEPT !.op = "recv_from", !.bytes = bytes]
    /\ UNCHANGED <<eng, net, ret, hist, cnt, pool, cc>>

\* Byte k of the security code of the serialized frame changes on the way
Tamper(k) ==
    /\ codec.op = "serialize"
    /\ ~codec.tampered
    /\ codec.parsed = NotParsed
    /\ codec' = [codec EXCEPT !.bytes[1 + k] = (@ + 1) % 256, !.tampered = TRUE]
    /\ UNCHANGED <<eng, net, ret, hist, cnt, pool, cc>>

ParseFrame ==
    /\ codec.op # ""
    /\ codec.parsed = NotParsed
    /\ codec' = [codec EXCEPT !.parsed = RawPacket_parse(codec.bytes)]
    /\ UNCHANGED <<eng, net, ret, hist, cnt, pool, cc>>

InitCodec ==
    /\ eng = [n \in Node |-> Rudpbase_new]
    /\ net = EmptyMap
    /\ ret = NoCall
    /\ hist = <<>>
    /\ cnt = [send |-> 0, drop |-> 0, dup |-> 0, close |-> 0, nack |-> 0,
              advance |-> 0, ticked |-> {}]
    /\ pool = EnginePool
    /\ codec = NoFrame
    /\ cc = NoController

NextCodec ==
    \/ \E packet \in Frames : SerializeFrame(packet)
    \/ \E bytes \in Datagrams : Arrive(bytes)
    \/ \E k \in 1..SeqBytes : Tamper(k)
    \/ ParseFrame

SpecCodec == InitCodec /\ [][NextCodec]_vars

\* Many acknowledgements awaiting one tick.  A submits payloads for B one after
\* the other and B receives each as it comes, neither calling tick() before
\* one of the numbers below has been reached; once B has flushed, A submits
\* no more.

\* The numbers of payloads after which tick() is called, around what the count
\* byte of a DataAck holds
FlushCounts == {1, 2, CountMod \div 32, CountMod, CountMod + 1}

\* B has sent A nothing yet, so no DataAck either
Unflushed == ~Has(eng["B"].next_seq, "A")

BurstSend ==
    /\ net = EmptyMap
    /\ Unflushed
    /\ Send("A", "B", ShortLen, TRUE)

FlushTick(n) ==
    /\ Len(hist) \in FlushCounts
    /\ net = EmptyMap \/ ~Unflushed
    /\ Tick(n)

InitFlush == Start(FlushSend, FlushDrop, 0, 0, 0, 0)

NextFlush ==
    \/ BurstSend
    \/ \E n \in Node : Recv(n)
    \/ \E n \in Node : FlushTick(n)
    \/ \E dg \in DOMAIN net : ~Unflushed /\ Drop(dg)

SpecFlush == InitFlush /\ [][NextFlush]_vars

\* One endpoint with two peers.  A, its counter toward B two short of the
\* wrap, also sends to C, an address nobody answers from; B answers; A may
\* close.  The application calls send and close, and time passes, only while
\* nothing is on its way to an endpoint.

\* The addresses A sends to
Peer == (Node \ {"A"}) \cup {"C"}

\* A as in WrapSender, one answered Ping earlier
SeqSender == [WrapSender EXCEPT !.next_seq["B"] = U32Max - 1]

InitSeq ==
    /\ eng = [n \in Node |-> IF n = "A" THEN SeqSender ELSE WrapReceiver]
    /\ net = EmptyMap
    /\ ret = NoCall
    /\ hist = <<>>
    /\ cnt = [send |-> SeqSend, drop |-> 0, dup |-> 0, close |-> MaxClose, nack |-> 0,
              advance |-> SeqAdvance, ticked |-> {}]
    /\ pool = EnginePool
    /\ codec = NoFrame
    /\ cc = NoController

\* More than the idle threshold passes
Quiet ==
    /\ cnt.advance > 0
    /\ eng' = [n \in Node |-> SilentEngine(eng[n], IdleWait)]
    /\ net' = [x \in {OlderDatagram(dg, IdleWait) : dg \in DOMAIN net} |->
                  Copies(net, {dg \in DOMAIN net : OlderDatagram(dg, IdleWait) = x})]
    /\ cnt' = [cnt EXCEPT !.advance = @ - 1, !.ticked = {}]
    /\ UNCHANGED <<ret, hist, pool, codec, cc>>

\* Nothing is on its way to an endpoint
Calm == \A dg \in DOMAIN net : dg.dst \notin Node

NextSeq ==
    \/ \E t \in Peer : Calm /\ Send("A", t, ShortLen, TRUE)
    \/ \E n \in Node : Recv(n)
    \/ \E n \in Node : Tick(n)
    \/ Calm /\ Close("A")
    \/ Calm /\ Quiet

SpecSeq == InitSeq /\ [][NextSeq]_vars

\* A ping that is not answered.  One endpoint submits payloads for B and for an
\* address nobody listens on, and falls silent twice
InitProbe == Start(ProbeSend, 0, 0, MaxClose, 0, ProbeAdvance)

NextProbe ==
    \/ \E t \in Peer : Calm /\ Send("A", t, ShortLen, TRUE)
    \/ \E n \in Node : Recv(n)
    \/ \E n \in Node : Tick(n)
    \/ Calm /\ Close("A")
    \/ Calm /\ Quiet

SpecProbe == InitProbe /\ [][NextProbe]_vars

\* The network altering datagrams.  What may change in a frame in flight: its
\* security code, its sequence or its type
Damage == {"code", "seq", "type"}

\* The frame bytes with one header field altered
Tampered(bytes, how) ==
    CASE how = "code" -> <<bytes[1], calculate(bytes[1], wrapping_add(bytes[3]), bytes[4]),
                           bytes[3], bytes[4]>>
      [] how = "seq" -> <<bytes[1], bytes[2], wrapping_add(bytes[3]), bytes[4]>>
      [] how = "type" -> <<(bytes[1] + 1) % (PT_CloseAck + 1), bytes[2], bytes[3], bytes[4]>>

\* The network alters one copy of a datagram (the budget is that of the
\* duplications)
Corrupt(dg, how) ==
    /\ cnt.dup > 0
    /\ dg \in DOMAIN net
    /\ Intact(dg.bytes)
    /\ net' = BagAdd(BagDel(net, dg), [dg EXCEPT !.bytes = Tampered(dg.bytes, how)])
    /\ cnt' = [cnt EXCEPT !.dup = @ - 1]
    /\ UNCHANGED <<eng, ret, hist, pool, codec, cc>>

InitTamper == Start(TamperSend, 0, MaxTamper, MaxClose, 0, TamperAdvance)

NextTamper ==
    \/ \E n \in Node, t \in Node : t # n /\ Send(n, t, ShortLen, TRUE)
    \/ \E n \in Node : Recv(n)
    \/ \E n \in Node : Tick(n)
    \/ \E n \in Node : Close(n)
    \/ \E dg \in DOMAIN net, how \in Damage : Corrupt(dg, how)
    \/ Advance

SpecTamper == InitTamper /\ [][NextTamper]_vars

\* Frames of every type under way: one payload, the network copying a
\* datagram, the peer nacking, silence long enough for a Ping, and close()
InitKinds == Start(RetrySend, 0, MaxDup, MaxClose, MaxNack, SeqAdvance)

NextKinds ==
    \/ \E n \in Node, t \in Node : t # n /\ Send(n, t, ShortLen, TRUE)
    \/ \E n \in Node : Recv(n)
    \/ \E n \in Node : Tick(n)
    \/ \E n \in Node : Close(n)
    \/ \E n \in Node, p \in Node : p # n /\ InjectNack(n, p, <<0>>)
    \/ \E dg \in DOMAIN net : Duplicate(dg)
    \/ Calm /\ Quiet

SpecKinds == InitKinds /\ [][NextKinds]_vars

\* The peer nacking lists of sequences: some parked, some not, one twice
NackLists == {<<>>, <<0>>, <<1>>, <<0, 1>>, <<1, 0>>, <<0, 0>>}

InitList == Start(ListSend, 0, 0, 0, MaxNack, 0)

NextList ==
    \/ Send("A", "B", ShortLen, TRUE)
    \/ \E n \in Node : Recv(n)
    \/ \E n \in Node : Tick(n)
    \/ \E seqs \in NackLists : InjectNack("A", "B", seqs)

SpecList == InitList /\ [][NextList]_vars

\* A peer that acknowledges what it likes.  A submits payloads for B; B, besides
\* running the engine, sends DataAcks listing sequences A holds, has already
\* had acknowledged or never sent (cnt.nack counts them)
AckLists == {<<0>>, <<1>>, <<2>>, <<0, 1>>, <<1, 0>>, <<0, 0>>}

AckFrame(seqs) ==
    LET data == seqs_serialize(seqs)
    IN serialize([packet_type |-> PT_DataAck,
                  security_code |-> calculate(PT_DataAck, 0, data),
                  seq |-> 0, data |-> data])

InjectAck(n, p, seqs) ==
    /\ cnt.nack > 0
    /\ net' = BagAdd(net, [src |-> p, dst |-> n, bytes |-> AckFrame(seqs)])
    /\ cnt' = [cnt EXCEPT !.nack = @ - 1]
    /\ UNCHANGED <<eng, ret, hist, pool, codec, cc>>

InitAck == Start(AckSend, 0, 0, 0, MaxAck, 0)

NextAck ==
    \/ Send("A", "B", ShortLen, TRUE)
    \/ \E n \in Node : Recv(n)
    \/ \E n \in Node : Tick(n)
    \/ \E seqs \in AckLists : InjectAck("A", "B", seqs)

SpecAck == InitAck /\ [][NextAck]_vars

\* A socket that may refuse a datagram.  A submits payloads for B; send_to
\* fails or succeeds for each
InitIo == Start(IoSend, 0, 0, 0, 0, IoAdvance)

NextIo ==
    \/ \E sent_ok \in BOOLEAN : Send("A", "B", ShortLen, sent_ok)
    \/ \E n \in Node : Recv(n)
    \/ \E n \in Node : Tick(n)
    \/ Advance

SpecIo == InitIo /\ [][NextIo]_vars

-----------------------------------------------------------------------------
\* The congestion controller of RttStats, driven through its public methods.
\* cwnd, ssthresh, in_flight and the argument of on_ack_received are u32, kept
\* as the i32 with the same bits; the operators below are the unsigned ones.

MAX_CWND == 1000

\* a < b on u32
u32_lt(a, b) == IF (a < 0) = (b < 0) THEN a < b ELSE b < 0

u32_min(a, b) == IF u32_lt(b, a) THEN b ELSE a

u32_max(a, b) == IF u32_lt(a, b) THEN b ELSE a

\* a + b does not fit a u32
u32_carries(a, b) == u32_lt(U32Max - a, b)

\* a + b modulo 2^32
u32_wrapping_add(a, b) ==
    IF (a < 0) # (b < 0) THEN a + b
    ELSE IF a >= 0
         THEN IF a <= I32Max - b THEN a + b
              ELSE ((a - I32Max) - 1) + ((b - I32Max) - 1)
         ELSE IF a >= ((0 - I32Max) - 1) - b THEN a + b
              ELSE ((a + I32Max) + 1) + ((b + I32Max) + 1)

\* u32::saturating_sub
u32_saturating_sub(a, n) ==
    IF u32_lt(a, n) THEN 0
    ELSE IF (a < 0) = (n < 0) THEN a - n
    ELSE IF a >= (n - I32Max) - 1 THEN a - n
    ELSE ((((a + I32Max) + 1) - n) + I32Max) + 1

\* a / b on u32, b # 0
u32_div(a, b) ==
    IF b < 0 THEN (IF u32_lt(a, b) THEN 0 ELSE 1)
    ELSE IF a >= 0 THEN a \div b
    ELSE IF b = 1 THEN a
    ELSE LET h == (a + I32Max) + 1                    \* a - 2^31
             r1 == I32Max % b
             r2 == h % b
         IN (I32Max \div b) + (h \div b) + (IF r1 >= (b - 1) - r2 THEN 1 ELSE 0)

\* x += y on a u32 field: with overflow checks the addition panics before the
\* store, without them it wraps
u32_add_assign(x, y, overflow_checks) ==
    IF u32_carries(x, y) /\ overflow_checks
    THEN [value |-> x, panicked |-> TRUE]
    ELSE [value |-> u32_wrapping_add(x, y), panicked |-> FALSE]

\* RttStats::on_packet_sent
on_packet_sent(rs, overflow_checks) ==
    LET sum == u32_add_assign(rs.in_flight, 1, overflow_checks)
    IN [rs |-> [rs EXCEPT !.in_flight = sum.value], panicked |-> sum.panicked]

\* RttStats::on_ack_received
on_ack_received(rs, acked_packets, overflow_checks) ==
    LET left == [rs EXCEPT !.in_flight = u32_saturating_sub(@, acked_packets)]
        step == IF rs.congestion_state = "SlowStart" THEN acked_packets
                ELSE IF rs.congestion_state = "CongestionAvoidance"
                THEN u32_div(u32_max(acked_packets, 1), u32_max(rs.cwnd, 1))
                ELSE 0
        sum == u32_add_assign(rs.cwnd, step, overflow_checks)
        grown == [left EXCEPT !.cwnd = sum.value,
                              !.congestion_state =
                                  IF @ = "SlowStart" /\ ~u32_lt(sum.value, rs.ssthresh)
                                  THEN "CongestionAvoidance" ELSE @]
    IN IF sum.panicked THEN [rs |-> left, panicked |-> TRUE]
       ELSE [rs |-> [grown EXCEPT !.cwnd = u32_min(@, MAX_CWND)], panicked |-> FALSE]

\* The reaction of on_packet_lost once the suppression window has passed
congestion_event(rs) ==
    LET ssthresh == u32_max(u32_div(rs.cwnd, 2), 2)
    IN [rs EXCEPT !.last_congestion = 0,
                  !.ssthresh = ssthresh,
                  !.cwnd = IF rs.congestion_state = "FastRecovery"
                           THEN u32_max(u32_div(rs.cwnd, 2), 1) ELSE ssthresh,
                  !.congestion_state = IF @ = "FastRecovery" THEN @
                                       ELSE "CongestionAvoidance"]

\* on_packet_lost as it would be without the suppression window
on_packet_lost_every_time(rs) == congestion_event(rs)

\* RttStats::on_packet_lost
on_packet_lost(rs) ==
    IF rs.last_congestion # -1 /\ rs.last_congestion < rs.rto THEN rs
    ELSE congestion_event(rs)

\* One call on the controller
Call(op, arg, outcome) ==
    /\ cc.calls > 0
    /\ ~cc.panicked
    /\ cc' = [cc EXCEPT !.op = op, !.arg = arg, !.was = cc.rs, !.rs = outcome.rs,
                        !.panicked = outcome.panicked, !.calls = @ - 1]
    /\ UNCHANGED <<eng, net, ret, hist, cnt, pool, codec>>

OnPacketSent == Call("on_packet_sent", 0, on_packet_sent(cc.rs, cc.overflow_checks))

OnAckReceived(acked_packets) ==
    Call("on_ack_received", acked_packets,
         on_ack_received(cc.rs, acked_packets, cc.overflow_checks))

OnPacketLost ==
    Call("on_packet_lost", 0, [rs |-> on_packet_lost(cc.rs), panicked |-> FALSE])

\* Time passes between two calls: the last congestion event grows older
Later(ms) ==
    /\ ~cc.panicked
    /\ cc.calls > 0
    /\ cc.rs.last_congestion # -1
    /\ cc.rs.last_congestion < cc.rs.rto
    /\ cc' = [cc EXCEPT !.op = "", !.arg = ms,
                        !.rs.last_congestion = Min(@ + ms, cc.rs.rto)]
    /\ UNCHANGED <<eng, net, ret, hist, cnt, pool, codec>>

AckedSamples == {0, 1, 2, 3, 999, 65534, I32Max, U32Max}

SuppressMs == 199

Waits == {SuppressMs, InitialRtoMs}

\* A controller in a state its own methods lead to, called twice.  SlowStart is
\* left at the first congestion event and never entered again, so there
\* ssthresh is still the initial one; CongestionAvoidance is entered either by
\* an acknowledgement that lifts cwnd to ssthresh (cwnd is then capped) or by a
\* congestion event (cwnd = ssthresh, and cwnd only grows until the next one).
CwndSamples == {1, 2, 3, 4, 5, 999, 1000}

SsthreshSamples == {2, 3, 500, 65535}

InFlightSamples == {0, 1, 3}

TwoCalls == 2

InitControl ==
    /\ eng = [n \in Node |-> Rudpbase_new]
    /\ net = EmptyMap
    /\ ret = NoCall
    /\ hist = <<>>
    /\ cnt = [send |-> 0, drop |-> 0, dup |-> 0, close |-> 0, nack |-> 0,
              advance |-> 0, ticked |-> {}]
    /\ pool = EnginePool
    /\ codec = NoFrame
    /\ \E cwnd \in CwndSamples, ssthresh \in SsthreshSamples,
          in_flight \in InFlightSamples,
          state \in {"SlowStart", "CongestionAvoidance"},
          last \in {-1, 0, SuppressMs, InitialRtoMs},
          checks \in BOOLEAN :
          /\ state = "SlowStart" => ssthresh = InitialSsthresh /\ last = -1
          /\ state = "CongestionAvoidance" =>
                \/ ssthresh = InitialSsthresh /\ cwnd = MAX_CWND /\ last = -1
                \/ ssthresh < InitialSsthresh /\ cwnd >= ssthresh /\ last # -1
          /\ cc = [NoController EXCEPT
                  !.rs = [RttStats_new EXCEPT !.cwnd = cwnd, !.ssthresh = ssthresh,
                                              !.in_flight = in_flight,
                                              !.congestion_state = state,
                                              !.last_congestion = last],
                  !.overflow_checks = checks, !.calls = TwoCalls]

NextControl ==
    \/ OnPacketSent
    \/ \E acked_packets \in AckedSamples : OnAckReceived(acked_packets)
    \/ OnPacketLost
    \/ \E ms \in Waits : Later(ms)

SpecControl == InitControl /\ [][NextControl]_vars

\* A controller from RttStats::new on
MaxCalls == 4

InitCongestion ==
    /\ eng = [n \in Node |-> Rudpbase_new]
    /\ net = EmptyMap
    /\ ret = NoCall
    /\ hist = <<>>
    /\ cnt = [send |-> 0, drop |-> 0, dup |-> 0, close |-> 0, nack |-> 0,
              advance |-> 0, ticked |-> {}]
    /\ pool = EnginePool
    /\ codec = NoFrame
    /\ \E checks \in BOOLEAN :
          cc = [NoController EXCEPT !.overflow_checks = checks, !.calls = MaxCalls]

NextCongestion ==
    \/ OnPacketSent
    \/ \E acked_packets \in AckedSamples : OnAckReceived(acked_packets)
    \/ OnPacketLost
    \/ \E ms \in Waits : Later(ms)

SpecCongestion == InitCongestion /\ [][NextCongestion]_vars

-----------------------------------------------------------------------------
(* Properties *)

\* The Data datagrams in flight that carry payload i
InFlight(i) ==
    {dg \in DOMAIN net : dg.bytes[1] = PT_Data /\ dg.bytes[4].body[1] = i}

\* The frame recv() makes of a datagram parses and carries the right security code
Valid(bytes) ==
    LET packet == parse(recv_from(bytes))
    IN /\ packet.err = ""
       /\ verify(packet.packet_type, packet.seq, packet.data, packet.security_code)

\* dg is a valid Data frame whose sequence n has already received from its sender
IsDuplicate(n, dg) ==
    /\ dg.dst = n
    /\ dg.bytes[1] = PT_Data
    /\ Valid(dg.bytes)
    /\ dg.bytes[3] \in Get(eng[n].recv_acks, dg.src, {})

\* The payloads n submitted for p that ended as fate
Ended(n, p, fate) ==
    {i \in DOMAIN hist : hist[i].src = n /\ hist[i].dst = p /\ hist[i].fate = fate}

\* C1: at-most-once delivery: whatever the endpoints call (send, tick, recv,
\* close) and whatever the network loses or reorders, recv at the peer returns
\* each payload accepted by send at most once.
C1_AtMostOnce == \A i \in DOMAIN hist : hist[i].delivered <= 1

\* C2: eventual delivery without loss: when the network has dropped nothing, a
\* payload accepted by send that the sender no longer holds for retransmission
\* and of which no copy is in flight any more has been returned by recv at the
\* peer (a run in which it never is, however long tick and recv are called).
C2_DeliveredWithoutLoss ==
    cnt.drop = RetryDrop =>
        \A i \in DOMAIN hist :
            (hist[i].accepted /\ hist[i].fate # "pending" /\ InFlight(i) = {})
                => hist[i].delivered >= 1

\* C3: loss recovery: when fewer than six copies of a Data frame were dropped
\* (and the network duplicated nothing), then once the sender no longer holds
\* the payload and no copy is in flight, the peer's recv has returned it and the
\* sender's retransmissions counter is at least the number of dropped copies.
C3_LossRecovery ==
    cnt.dup = MaxDup =>
        \A i \in DOMAIN hist :
            (/\ hist[i].accepted
             /\ hist[i].fate # "pending"
             /\ InFlight(i) = {}
             /\ hist[i].dropped <= MaxRetry)
                => /\ hist[i].delivered >= 1
                   /\ eng[hist[i].src].connection_stats[hist[i].dst].retransmissions
                          >= hist[i].dropped

\* The DataAck datagrams from n to p that list sequence seq
AcksFor(bag, n, p, seq) ==
    {dg \in DOMAIN bag :
        /\ dg.src = n /\ dg.dst = p /\ dg.bytes[1] = PT_DataAck /\ Valid(dg.bytes)
        /\ seqs_deserialize(dg.bytes[4])[1]
        /\ \E k \in DOMAIN seqs_deserialize(dg.bytes[4])[2] :
               seqs_deserialize(dg.bytes[4])[2][k] = seq}

\* recv() by n of a Data frame it has already received: nothing is returned to
\* the caller, no payload counts as delivered, and the sequence is appended to
\* the acknowledgements pending for the sender
DuplicateStep(n, dg) ==
    (IsDuplicate(n, dg) /\ RecvDatagram(n, dg)) =>
        /\ ret'.result = "None"
        /\ ret'.data = NoData
        /\ \A i \in DOMAIN hist : hist'[i].delivered = hist[i].delivered
        /\ eng'[n].pending_acks[dg.src] =
               Append(Get(eng[n].pending_acks, dg.src, <<>>), dg.bytes[3])

\* tick() by n: every sequence pending acknowledgement for p goes on the wire
\* to p in a new DataAck, and nothing is left pending
AckStep(n) ==
    Tick(n) =>
        /\ eng'[n].pending_acks = EmptyMap
        /\ \A p \in DOMAIN eng[n].pending_acks :
               \A k \in DOMAIN eng[n].pending_acks[p] :
                   \E dg \in AcksFor(net', n, p, eng[n].pending_acks[p][k]) :
                       net'[dg] > (IF dg \in DOMAIN net THEN net[dg] ELSE 0)

\* C4: duplicate suppression with re-ack: when a Data frame from P whose
\* sequence is already in the received set of P arrives again, recv returns no
\* payload for it and schedules an acknowledgement of that sequence, and the
\* next tick sends that sequence to P in a DataAck.
C4_DuplicateSuppressed ==
    [][(\A n \in Node : \A dg \in DOMAIN net : DuplicateStep(n, dg))
       /\ (\A n \in Node : AckStep(n))]_vars

\* A duplicate was the last thing n received, it returned nothing, and a tick
\* of n has since put the acknowledgement of its sequence on the wire
C4_Witness ==
    /\ ret.kind = PT_Data
    /\ ret.result = "None"
    /\ ~Has(eng[ret.node].pending_acks, ret.from)
    /\ \E i \in DOMAIN hist :
           /\ hist[i].src = ret.from
           /\ hist[i].delivered = 1
           /\ AcksFor(net, ret.node, ret.from, hist[i].seq) # {}

\* Payload i is in the retransmit map of its sender
IsParked(i) ==
    /\ Has(eng[hist[i].src].send_buffer, hist[i].dst)
    /\ Has(eng[hist[i].src].send_buffer[hist[i].dst], hist[i].seq)
    /\ i \in PendingIds(eng[hist[i].src])

\* The frame of payload i in the retransmit map of its sender
Parked(i) == eng[hist[i].src].send_buffer[hist[i].dst][hist[i].seq]

\* A frame waiting for its acknowledgement has been transmitted once and once
\* more per retry, at most five; a frame given up has been transmitted six
\* times and is gone from the map; packets_sent counts the payloads submitted
RetryCounts ==
    \A i \in DOMAIN hist :
        /\ hist[i].fate = "pending" =>
               /\ IsParked(i)
               /\ Parked(i).retry_count <= MaxRetry
               /\ hist[i].tx = 1 + Parked(i).retry_count
        /\ hist[i].fate = "abandoned" =>
               /\ ~IsParked(i)
               /\ hist[i].tx = 1 + MaxRetry
               /\ eng[hist[i].src].connection_stats[hist[i].dst].packets_sent =
                      Cardinality({j \in DOMAIN hist : /\ hist[j].src = hist[i].src
                                                       /\ hist[j].dst = hist[i].dst})

\* tick() by n, for a frame of n whose timeout has elapsed: one retransmission
\* while it has retries left, removal once it has none; no other frame changes
RetryStep(n) ==
    Tick(n) =>
        \A i \in DOMAIN hist :
            (hist[i].src = n /\ hist[i].fate = "pending") =>
                IF should_retry(Parked(i)) /\ Parked(i).retry_count >= MaxRetry
                THEN hist'[i].fate = "abandoned" /\ hist'[i].tx = hist[i].tx
                ELSE IF should_retry(Parked(i))
                THEN hist'[i].fate = "pending" /\ hist'[i].tx = hist[i].tx + 1
                ELSE hist'[i].fate = "pending" /\ hist'[i].tx = hist[i].tx

\* A frame is put on the wire again only by a tick of its sender while it is in
\* the retransmit map; once it has left the map it is never transmitted again
OnlyRetries ==
    \A i \in DOMAIN hist :
        hist'[i].tx # hist[i].tx =>
            /\ hist[i].fate = "pending"
            /\ Tick(hist[i].src)
            /\ should_retry(Parked(i))

\* C5: retry exhaustion: with timeouts only (no DataNack), a Data frame that is
\* never acknowledged is retransmitted once each time tick finds its timeout
\* elapsed, five times in all, and the next expiry removes it from the
\* retransmit map; from then on it is never transmitted again, and packets_sent
\* for the peer still counts it once.
C5_RetryExhaustion ==
    /\ []RetryCounts
    /\ [][(\A n \in Node : RetryStep(n)) /\ OnlyRetries]_vars

\* A frame was given up after six transmissions and packets_sent is 1
C5_Witness ==
    \E i \in DOMAIN hist :
        /\ hist[i].fate = "abandoned"
        /\ hist[i].tx = 1 + MaxRetry
        /\ hist[i].delivered = 0
        /\ eng[hist[i].src].connection_stats[hist[i].dst].packets_sent = 1

\* C6: bounded delivery attempts: no Data frame has been put on the wire more
\* than six times (the transmission by send and at most five retransmissions),
\* whether a timeout or a DataNack caused the retransmission.
C6_BoundedAttempts == \A i \in DOMAIN hist : hist[i].tx <= 1 + MaxRetry

\* C7: packets_lost accounting: packets_lost of peer P is the number of frames
\* to P that were removed from the retransmit map with their retries used up
\* (0 while frames are only in flight or being retransmitted).
C7_PacketsLost ==
    \A n \in Node : \A p \in DOMAIN eng[n].connection_stats :
        eng[n].connection_stats[p].packets_lost = Cardinality(Ended(n, p, "abandoned"))

\* C8: congestion admission: send accepts a payload for P only while fewer
\* frames to P are unacknowledged than the congestion window allows; with the
\* initial window of 1 and no acknowledgement received yet from P, the payloads
\* accepted for P and still unacknowledged never number more than one.
C8_CongestionAdmission ==
    \A n \in Node : \A p \in Node :
        ~Has(eng[n].rtt_stats, p) =>
            Cardinality({i \in Ended(n, p, "pending") : hist[i].accepted}) <= InitialCwnd

\* recv() by n of a valid frame, other than Close and CloseAck, from an address
\* n holds no liveness entry for
FirstContact(n, dg) ==
    /\ RecvDatagram(n, dg)
    /\ Valid(dg.bytes)
    /\ dg.bytes[1] \notin {PT_Close, PT_CloseAck}
    /\ ~Has(eng[n].connection_states, dg.src)

\* C9: peer materialization on receive: after recv has processed a valid frame
\* from an address P the engine held no state for, connection_status(P) is
\* Alive.
C9_PeerMaterialized ==
    [][\A n \in Node : \A dg \in DOMAIN net :
           FirstContact(n, dg) => connection_status(eng'[n], dg.src) = "Alive"]_vars

\* C10: Dead means empty: when connection_status(P) is Dead (P having no
\* liveness entry included), the retransmit map holds no frame for P and the
\* received-sequence set of P is empty or absent.
C10_DeadMeansEmpty ==
    \A n \in Node : \A p \in Node \ {n} :
        connection_status(eng[n], p) = "Dead" =>
            /\ Get(eng[n].send_buffer, p, EmptyMap) = EmptyMap
            /\ Get(eng[n].recv_acks, p, {}) = {}

\* The addresses an engine holds any state for
Peers(E) ==
    DOMAIN E.send_buffer \cup DOMAIN E.recv_acks \cup DOMAIN E.next_seq
        \cup DOMAIN E.rtt_stats \cup DOMAIN E.connection_stats
        \cup DOMAIN E.connection_states \cup DOMAIN E.pending_acks

\* The Close datagrams from n to p
ClosesFor(bag, n, p) ==
    {dg \in DOMAIN bag : dg.src = n /\ dg.dst = p /\ dg.bytes[1] = PT_Close}

\* The number of datagrams of the set S in a bag
CountIn(bag, S) == Copies(bag, S \cap DOMAIN bag)

\* close() by n: one Close frame more on the wire to every peer n held state
\* for, every per-peer map empty afterwards and every peer Dead
CloseStep(n) ==
    Close(n) =>
        /\ \A p \in Peers(eng[n]) :
               CountIn(net', ClosesFor(net', n, p)) = CountIn(net, ClosesFor(net, n, p)) + 1
        /\ Peers(eng'[n]) = {}
        /\ \A p \in Node : connection_status(eng'[n], p) = "Dead"

\* C11: close() transmits one Close frame to every peer the engine holds any
\* state for (sent to or only received from); when it returns every per-peer
\* map is empty and connection_status(P) is Dead for all P.
C11_CloseNotifiesAll == [][\A n \in Node : CloseStep(n)]_vars

\* The Ping datagrams from n to p
PingsFor(bag, n, p) ==
    {dg \in DOMAIN bag : dg.src = n /\ dg.dst = p /\ dg.bytes[1] = PT_Ping}

\* tick() by n, for every peer n tracks: idle for more than 30 s with no ping
\* outstanding, exactly one Ping more on the wire to it and its status Probing;
\* a ping outstanding, no Ping more
PingStep(n) ==
    Tick(n) =>
        \A p \in DOMAIN eng[n].connection_states :
            LET cs == eng[n].connection_states[p]
                before == CountIn(net, PingsFor(net, n, p))
                after == CountIn(net', PingsFor(net', n, p))
            IN /\ (cs.last_activity > IdleMs /\ cs.ping_sent = -1) =>
                      /\ after = before + 1
                      /\ connection_status(eng'[n], p) = "Probing"
               /\ cs.ping_sent # -1 => after = before

\* C12: a tracked peer idle for more than 30 s with no ping outstanding gets
\* exactly one Ping from the next tick, which sets its status to Probing; later
\* ticks send no further Ping while that ping is outstanding.
C12_KeepaliveProbe == [][\A n \in Node : PingStep(n)]_vars

\* A's ping to B has been outstanding for longer than its timeout, the only
\* Ping A sent is still on the wire, and a tick by A now sends nothing
C12_Witness ==
    /\ Has(eng["A"].connection_states, "B")
    /\ eng["A"].connection_states["B"].ping_sent > PingTimeoutMs
    /\ eng["A"].connection_states["B"].status = "Probing"
    /\ CountIn(net, PingsFor(net, "A", "B")) = 1
    /\ tick(eng["A"]).out = <<>>

\* n's ping to p has gone unanswered for longer than its timeout
Overdue(n, p) ==
    /\ Has(eng[n].connection_states, p)
    /\ eng[n].connection_states[p].ping_sent > PingTimeoutMs

\* n has sent to p or heard from p within the idle threshold
Heard(n, p) ==
    /\ Has(eng[n].connection_states, p)
    /\ eng[n].connection_states[p].last_activity <= IdleMs

\* n holds nothing for p any more
Removed(n, p) == connection_status(eng[n], p) = "Dead" /\ ~has_stats(eng[n], p)

\* C13: a peer whose Pings go unanswered, each for more than 10 s, three times
\* in a row while ticks continue becomes Dead and all state for it is removed
\* (connection_status Dead, stats None): at A, the endpoint that tracks its peer,
\* an unanswered ping leads to B being heard from again or removed.
C13_DeathByPingFailure == Overdue("A", "B") ~> (Heard("A", "B") \/ Removed("A", "B"))

\* The payloads A submitted after the wrap that went out with sequence 0
FreshZero == {i \in DOMAIN hist : hist[i].seq = 0}

\* tick() by B running the periodic cleanup after A's counter wrapped: sequence
\* 0 is in B's received set for A afterwards only if the new sequence 0 has
\* been delivered
WrapCleanupStep ==
    (Tick("B") /\ Wrapped /\ eng["B"].last_cleanup > CleanupMs) =>
        (0 \in Get(eng'["B"].recv_acks, "A", {}) =>
             \E i \in FreshZero : hist[i].delivered > 0)

\* recv() by B, which has run the periodic cleanup since the wrap, of the first
\* copy to arrive of a valid Data frame with sequence 0 sent after the wrap:
\* its payload is returned
WrapFreshStep(dg) ==
    (/\ RecvDatagram("B", dg)
     /\ cnt.advance = 0
     /\ eng["B"].last_cleanup <= CleanupMs
     /\ dg.bytes[1] = PT_Data
     /\ Valid(dg.bytes)
     /\ dg.bytes[3] = 0
     /\ hist[dg.bytes[4].body[1]].delivered = 0) =>
        /\ ret'.result = "Data"
        /\ ret'.data = dg.bytes[4]

\* C14: dedup across sequence wrap: when the sender's counter toward R wraps
\* from 2^32 - 1 to 0, the periodic cleanup at R clears R's received set for
\* that sender, so that a new Data frame with sequence 0 is delivered as fresh.
C14_FreshAfterWrap ==
    [][WrapCleanupStep /\ (\A dg \in DOMAIN net : WrapFreshStep(dg))]_vars

\* set_data_len(len) by c on the i-th buffer it holds: Ok and the length set
\* when len is at most limit, BufferTooLarge and the length as it was otherwise
SetDataLenStep(c, i, len, limit) ==
    SetDataLen(c, i, len) =>
        IF len <= limit
        THEN /\ pool'.call.result = "Ok"
             /\ pool'.held[c][i].data_len = len
        ELSE /\ pool'.call.result = "BufferTooLarge"
             /\ pool'.held[c][i].data_len = pool.held[c][i].data_len

\* C15: set_data_len(len) succeeds when len is at most the payload capacity of
\* 1200 bytes (a buffer being 9 + 1200 bytes); for a larger len it returns
\* BufferTooLarge and leaves the length unchanged.
C15_PayloadCapacity ==
    [][\A c \in Context : \A i \in 1..MaxHeld : \A len \in DataLens :
           SetDataLenStep(c, i, len, MAX_BUFFER_SIZE)]_vars

\* get_write_buffer() by c returning: it succeeds with a buffer of payload
\* length 0; the free list non-empty, its front is popped and handed out and
\* the call counts as a hit; the free list empty, it stays empty and the call
\* counts as a miss
AcquireStep(c) ==
    GetWriteBufferReturn(c) =>
        LET before == pool.bp
            after == pool'.bp
            got == pool'.held[c][Len(pool'.held[c])]
        IN /\ pool'.call.result = "Ok"
           /\ got.data_len = 0
           /\ after.total_allocations = before.total_allocations + 1
           /\ IF before.free_buffers # <<>>
              THEN /\ after.pool_hits = before.pool_hits + 1
                   /\ after.pool_misses = before.pool_misses
                   /\ after.free_buffers = pop_front(before.free_buffers)
                   /\ Head(before.free_buffers).id # 0 =>
                          got.raw_buffer = Head(before.free_buffers).id
              ELSE /\ after.pool_misses = before.pool_misses + 1
                   /\ after.pool_hits = before.pool_hits
                   /\ after.free_buffers = <<>>

\* What stats() reports, which it reads under the lock, adds up
CountersAgree ==
    pool.mutex = "" =>
        stats(pool.bp).total_allocations
            = stats(pool.bp).pool_hits + stats(pool.bp).pool_misses

\* A context that has the lock for get_write_buffer gets its buffer, whatever
\* the free list holds
AlwaysServed ==
    \A c \in Context : pool.pc[c] = "get_write_buffer" => ENABLED GetWriteBufferReturn(c)

\* C16: pool acquire: get_write_buffer never fails for lack of buffers and
\* always returns a buffer of payload length 0; it is a hit (the front of the
\* free list popped, pool_hits + 1) exactly when the free list is non-empty
\* and a miss otherwise; after any sequence of acquire, release and warmup
\* total_allocations = pool_hits + pool_misses.
C16_PoolAcquire ==
    /\ [](CountersAgree /\ AlwaysServed)
    /\ [][\A c \in Context : AcquireStep(c)]_vars

\* The last call was an acquire served from the free list, by a buffer that had
\* been handed out and released before, and an earlier one was a miss
C16_Witness ==
    /\ pool.call.op = "get_write_buffer"
    /\ pool.call.hit
    /\ pool.call.buffer.raw_buffer <= pool.made - 1
    /\ pool.bp.pool_misses >= 1
    /\ pool.bp.free_buffers = <<>>

\* Drop of a buffer by c completing: the free list below the cap, it grows by
\* exactly one, the buffer at its back, so that an acquire that follows is a
\* hit; the free list at the cap (or above), it is left as it was
ReleaseStep(c) ==
    DropReturn(c) =>
        LET before == stats(pool.bp).free_count
            after == stats(pool'.bp).free_count
        IN IF before < MAX_POOL_CAPACITY
           THEN /\ after = before + 1
                /\ pool'.bp.free_buffers[Len(pool'.bp.free_buffers)].id
                       = pool.held[c][pool.arg[c]].raw_buffer
                /\ get_buffer(pool'.bp, pool'.bp.free_buffers, pool'.made).pool.pool_hits
                       = pool'.bp.pool_hits + 1
           ELSE pool'.bp.free_buffers = pool.bp.free_buffers

\* The free list holds at most MAX_POOL_CAPACITY buffers
WithinCap == stats(pool.bp).free_count <= MAX_POOL_CAPACITY

\* C17: pool release and reuse: a buffer dropped while the free list is below
\* the cap increases free_count by exactly one and the next acquire is a hit;
\* a drop at the cap leaves free_count unchanged; free_count never exceeds the
\* cap.
C17_PoolRelease ==
    /\ []WithinCap
    /\ [][\A c \in Context : ReleaseStep(c)]_vars

\* The buffers the contexts hold, as <<context, position, identity>>
Owned ==
    UNION {{<<c, i, pool.held[c][i].raw_buffer>> : i \in DOMAIN pool.held[c]} :
           c \in Context}

\* The positions of the free list that hold a buffer handed out before
Named == {k \in DOMAIN pool.bp.free_buffers : pool.bp.free_buffers[k].id # 0}

\* No buffer is held twice, by two contexts or by one
SingleOwner == \A x \in Owned : \A y \in Owned : x[3] = y[3] => x = y

\* No buffer a context holds is on the free list, and none is there twice
OwnedOrFree ==
    /\ \A x \in Owned : \A k \in Named : pool.bp.free_buffers[k].id # x[3]
    /\ \A j \in Named : \A k \in Named :
           pool.bp.free_buffers[j].id = pool.bp.free_buffers[k].id => j = k

\* Every acquire begun has been counted once it has returned, as a hit or as a
\* miss, and every buffer held or free was allocated once
CountersConsistent ==
    pool.mutex = "" =>
        /\ pool.bp.total_allocations = pool.bp.pool_hits + pool.bp.pool_misses
        /\ pool.bp.total_allocations + Cardinality({c \in Context : pool.pc[c] # "idle"})
               <= MaxPoolCalls - pool.calls
        /\ Cardinality(Owned) <= pool.bp.total_allocations
        /\ \A x \in Owned : x[3] \in 1..pool.made
        /\ \A k \in Named : pool.bp.free_buffers[k].id \in 1..pool.made

\* C18: shared pool: for every interleaving of acquire and release by several
\* contexts, no buffer is handed to two owners, none is both owned and on the
\* free list, and the counters stay consistent.
C18_SharedPool == SingleOwner /\ OwnedOrFree /\ CountersConsistent

\* Both contexts hold a buffer, acquires have been served from the free list
\* and by allocation, and a call on the pool is in progress under the lock
C18_Witness ==
    /\ pool.held["c1"] # <<>>
    /\ pool.held["c2"] # <<>>
    /\ pool.bp.pool_hits >= 1
    /\ pool.bp.pool_misses >= 1
    /\ pool.mutex # ""


\* C19: a frame built by serialize and handed unchanged to parse comes back with
\* the same packet type, the same 32-bit sequence, the same 32-bit security
\* code and the same payload, for every packet type.
C19_FrameRoundTrip ==
    (codec.op = "serialize" /\ ~codec.tampered /\ codec.parsed # NotParsed) =>
        /\ codec.parsed.err = ""
        /\ codec.parsed.packet_type = codec.packet.packet_type
        /\ codec.parsed.security_code = codec.packet.security_code
        /\ codec.parsed.seq = codec.packet.seq
        /\ codec.parsed.data = codec.packet.data

\* A Data frame with the highest sequence, a security code with its top bit
\* set and a full payload has been serialized and parsed
C19_Witness ==
    /\ codec.op = "serialize"
    /\ ~codec.tampered
    /\ codec.parsed # NotParsed
    /\ codec.packet.packet_type = PT_Data
    /\ codec.packet.seq = U32Max
    /\ codec.packet.security_code = (0 - I32Max) - 1
    /\ Len(codec.packet.data) = MAX_BUFFER_SIZE
    /\ Len(codec.bytes) = PROTOCOL_HEADER_SIZE + MAX_BUFFER_SIZE

\* C20: parse answers PacketTooSmall exactly when the input is shorter than
\* the 9-byte header; otherwise Protocol exactly when byte 0 is not a packet
\* type 0..6; otherwise it succeeds, whatever the security code in the frame.
C20_ParseRejection ==
    codec.parsed # NotParsed =>
        /\ codec.parsed.err = "PacketTooSmall" <=> Len(codec.bytes) < 9
        /\ Len(codec.bytes) >= 9 =>
               (codec.parsed.err = "Protocol" <=> codec.bytes[1] \notin 0..6)
        /\ (Len(codec.bytes) >= 9 /\ codec.bytes[1] \in 0..6) => codec.parsed.err = ""

\* A serialized frame whose security code was changed on the way has been
\* parsed, and parse returned it with the changed code: the frame as
\* serialized parses too, so the code was not compared with anything
C20_Witness ==
    /\ codec.op = "serialize"
    /\ codec.tampered
    /\ codec.parsed # NotParsed
    /\ codec.parsed.err = ""
    /\ codec.parsed.security_code # codec.packet.security_code
    /\ codec.parsed.seq = codec.packet.seq
    /\ codec.parsed.data = codec.packet.data
    /\ RawPacket_parse(RawPacket_serialize(codec.packet)).err = ""

\* The sequences a datagram lists when recv() takes it for a valid frame of
\* type kind (none otherwise)
Listed(bytes, kind) ==
    IF bytes[1] = kind /\ Valid(bytes) /\ seqs_deserialize(recv_from(bytes)[4])[1]
    THEN {seqs_deserialize(recv_from(bytes)[4])[2][k] :
              k \in DOMAIN seqs_deserialize(recv_from(bytes)[4])[2]}
    ELSE {}

\* recv() by n of a DataAck from p: no sequence it lists is in the retransmit
\* map for p afterwards, and a payload of n awaiting p's acknowledgement under
\* a listed sequence is settled as acknowledged
AckRemovesStep(n, dg) ==
    RecvDatagram(n, dg) =>
        \A s \in Listed(dg.bytes, PT_DataAck) :
            /\ ~Has(Get(eng'[n].send_buffer, dg.src, EmptyMap), s)
            /\ \A i \in DOMAIN hist :
                   (/\ hist[i].src = n /\ hist[i].dst = dg.src /\ hist[i].seq = s
                    /\ hist[i].fate = "pending") => hist'[i].fate = "acked"

\* A payload that has left the retransmit map stays out of it and is not put
\* on the wire again, whatever its sender does next (tick, recv of a DataNack)
SettledStep ==
    \A i \in DOMAIN hist :
        hist[i].fate # "pending" =>
            /\ hist'[i].fate = hist[i].fate
            /\ hist'[i].tx = hist[i].tx

\* A payload is in the retransmit map exactly while it awaits acknowledgement
ParkedWhilePending ==
    \A i \in DOMAIN hist : IsParked(i) <=> hist[i].fate = "pending"

\* C21: ack stops retransmission: once the sender has processed a DataAck from
\* P that lists sequence s, the entry (P, s) is absent from the retransmit map
\* and that frame is never transmitted to P again, by a tick or on a DataNack;
\* a frame is in the retransmit map only while no DataAck listing it has been
\* processed.
C21_AckStopsRetransmission ==
    /\ []ParkedWhilePending
    /\ [][(\A n \in Node : \A dg \in DOMAIN net : AckRemovesStep(n, dg))
          /\ SettledStep]_vars

\* A payload was acknowledged after a retransmission, and the last thing its
\* sender then received was a DataNack asking for its sequence again: it has
\* not gone out again
C21_Witness ==
    \E i \in DOMAIN hist :
        /\ hist[i].fate = "acked"
        /\ hist[i].tx = 2
        /\ ret.node = hist[i].src
        /\ ret.kind = PT_DataNack
        /\ ret.from = hist[i].dst
        /\ ~IsParked(i)
        /\ \A dg \in DOMAIN net : dg.bytes[1] # PT_Data

\* The DataAck datagrams from n to p of which bag b holds more copies than bag a
NewAcks(a, b, n, p) ==
    {dg \in DOMAIN b :
        /\ dg.src = n /\ dg.dst = p /\ dg.bytes[1] = PT_DataAck
        /\ b[dg] > (IF dg \in DOMAIN a THEN a[dg] ELSE 0)}

\* tick() by n, for a peer p it has sequences to acknowledge to: each of them is
\* listed in a DataAck the tick sends to p or is still pending afterwards; each
\* DataAck sent carries at most 255 sequences, as many as its count byte says
FlushStep(n) ==
    Tick(n) =>
        \A p \in DOMAIN eng[n].pending_acks :
            /\ \A k \in DOMAIN eng[n].pending_acks[p] :
                   \/ \E dg \in NewAcks(net, net', n, p) :
                          eng[n].pending_acks[p][k] \in Listed(dg.bytes, PT_DataAck)
                   \/ \E j \in DOMAIN Get(eng'[n].pending_acks, p, <<>>) :
                          eng'[n].pending_acks[p][j] = eng[n].pending_acks[p][k]
            /\ \A dg \in NewAcks(net, net', n, p) :
                   /\ Len(dg.bytes[4].body) - 1 <= CountMod - 1
                   /\ dg.bytes[4].body[1] = Len(dg.bytes[4].body) - 1

\* C22: ack flushing loses no acknowledgement: every sequence scheduled for
\* acknowledgement to P is carried in a DataAck emitted by a tick; an emitted
\* DataAck lists at most 255 sequences and its count byte is the number of
\* sequences in its payload; of more than 255 pending, those not carried stay
\* pending for the ticks that follow.
C22_AckFlushing == [][\A n \in Node : FlushStep(n)]_vars

\* The DataAck datagrams from n to p
AcksTo(bag, n, p) ==
    {dg \in DOMAIN bag : dg.src = n /\ dg.dst = p /\ dg.bytes[1] = PT_DataAck}

\* tick() by n, for every peer p: one DataAck goes to p if n has sequences to
\* acknowledge to it and none otherwise; it carries the sequence the counter
\* for p stood at, and the counter advances by one for it (and by one for a
\* Ping to p); the flush leaves the retransmit map as the retransmission step
\* left it, and the tick parks nothing
IndependentAckStep(n) ==
    Tick(n) =>
        LET R == handle_retransmissions(eng[n])
            A == send_pending_acks(R.e)
        IN /\ A.e.send_buffer = R.e.send_buffer
           /\ \A p \in Node \ {n} :
                  LET acks == CountIn(net', AcksTo(net', n, p)) - CountIn(net, AcksTo(net, n, p))
                      pings == CountIn(net', PingsFor(net', n, p))
                                   - CountIn(net, PingsFor(net, n, p))
                  IN /\ acks = IF Get(eng[n].pending_acks, p, <<>>) # <<>> THEN 1 ELSE 0
                     /\ Get(eng'[n].next_seq, p, 0) = Get(eng[n].next_seq, p, 0) + acks + pings
                     /\ \A dg \in NewAcks(net, net', n, p) :
                            dg.bytes[3] = Get(eng[n].next_seq, p, 0)
                     /\ DOMAIN Get(eng'[n].send_buffer, p, EmptyMap)
                            \subseteq DOMAIN Get(eng[n].send_buffer, p, EmptyMap)

\* recv() by n puts no DataAck on the wire
RecvSendsNoAck(n) ==
    Recv(n) => \A p \in Node : NewAcks(net, net', n, p) = {}

\* Only Data frames are held for retransmission
OnlyDataParked ==
    \A n \in Node : \A p \in DOMAIN eng[n].send_buffer :
        \A s \in DOMAIN eng[n].send_buffer[p] :
            eng[n].send_buffer[p][s].data[1] = PT_Data

\* C23: acks are independent, unparked frames: flushing the pending acks to P
\* advances next_seq[P] by exactly one per DataAck emitted and leaves the
\* retransmit map unchanged; a DataAck is never held for retransmission; recv
\* itself transmits no DataAck, they go out from tick only.
C23_IndependentAcks ==
    /\ []OnlyDataParked
    /\ [][\A n \in Node : IndependentAckStep(n) /\ RecvSendsNoAck(n)]_vars

\* An endpoint that has a Data frame of its own parked under sequence 0 has
\* sent a DataAck under sequence 1, and its counter stands at 2
C23_Witness ==
    \E n \in Node : \E p \in Node \ {n} :
        /\ Has(eng[n].send_buffer, p)
        /\ DOMAIN eng[n].send_buffer[p] = {0}
        /\ Get(eng[n].next_seq, p, 0) = 2
        /\ \E dg \in AcksTo(net, n, p) : dg.bytes[3] = 1

\* The frames of n parked for p that a datagram acknowledges
AckedFrames(n, dg) ==
    {s \in Listed(dg.bytes, PT_DataAck) : Has(Get(eng[n].send_buffer, dg.src, EmptyMap), s)}

\* recv() by n of a DataAck from p that removes frames of which every one has
\* been retransmitted: the timing estimator of p and avg_rtt are as before
KarnStep(n, dg) ==
    (/\ RecvDatagram(n, dg)
     /\ AckedFrames(n, dg) # {}
     /\ \A s \in AckedFrames(n, dg) : eng[n].send_buffer[dg.src][s].retry_count > 0) =>
        /\ Get(eng'[n].rtt_stats, dg.src, RttStats_new)
               = Get(eng[n].rtt_stats, dg.src, RttStats_new)
        /\ Get(eng'[n].connection_stats, dg.src, ConnectionStats_new).avg_rtt
               = Get(eng[n].connection_stats, dg.src, ConnectionStats_new).avg_rtt

\* C24: Karn's rule: when a DataAck removes a pending frame whose retry count
\* is greater than 0, no RTT sample is fed to the timing estimator or to
\* avg_rtt: SRTT, RTTVAR and RTO of the peer are unchanged by it.
C24_KarnsRule == [][\A n \in Node : \A dg \in DOMAIN net : KarnStep(n, dg)]_vars

\* The 3 s a pending frame's retransmission timeout is to stay below
RtoCapMs == 3 * 1000

\* The retransmission timeout kept with every pending frame is between 200 ms
\* and 3 s
RtoWithinBounds ==
    \A n \in Node : \A p \in DOMAIN eng[n].send_buffer :
        \A s \in DOMAIN eng[n].send_buffer[p] :
            /\ eng[n].send_buffer[p][s].rto >= InitialRtoMs
            /\ eng[n].send_buffer[p][s].rto <= RtoCapMs

\* tick() by n: a frame it retransmits on timeout gets min(2 * previous, 3 s)
BackoffStep(n) ==
    Tick(n) =>
        \A p \in DOMAIN eng[n].send_buffer :
            \A s \in retried_seqs(eng[n].send_buffer[p]) :
                eng'[n].send_buffer[p][s].rto
                    = Min(2 * eng[n].send_buffer[p][s].rto, RtoCapMs)

\* send() by n to p: the new frame's timeout is the peer's RTO brought into
\* the range 200 ms .. 3 s
EntryRtoStep(n) ==
    \A p \in Node \ {n} :
        Send(n, p, ShortLen, TRUE) =>
            eng'[n].send_buffer[p][Get(eng[n].next_seq, p, 0)].rto
                = Max(InitialRtoMs,
                      Min(Get(eng[n].rtt_stats, p, RttStats_new).rto, RtoCapMs))

\* C25: per-packet timeout bounds: the retransmission timeout stored with each
\* pending frame always lies in [200 ms, 3 s]; it starts as the peer's RTO
\* clamped to that range and each timeout retransmission sets it to
\* min(2 * previous, 3 s).
C25_TimeoutBounds ==
    /\ []RtoWithinBounds
    /\ [][\A n \in Node : BackoffStep(n) /\ EntryRtoStep(n)]_vars

\* The copies on the wire of frames of one type and sequence from n to p
FramesOf(bag, n, p, kind, seq) ==
    CountIn(bag, {dg \in DOMAIN bag : /\ dg.src = n /\ dg.dst = p
                                      /\ dg.bytes[1] = kind /\ dg.bytes[3] = seq})

\* The sequences endpoint n gives to new frames for p in a step: those of the
\* DataAck, Ping and Close frames it puts on the wire and those it parks Data
\* under (a retransmission, a PingAck and a CloseAck repeat a sequence)
Assigned(n, p) ==
    {dg.bytes[3] : dg \in {x \in DOMAIN net' :
        /\ x.src = n /\ x.dst = p
        /\ x.bytes[1] \in {PT_DataAck, PT_Ping, PT_Close}
        /\ FramesOf(net', n, p, x.bytes[1], x.bytes[3])
               > FramesOf(net, n, p, x.bytes[1], x.bytes[3])}}
    \cup (DOMAIN Get(eng'[n].send_buffer, p, EmptyMap)
              \ DOMAIN Get(eng[n].send_buffer, p, EmptyMap))

\* The four bytes of a u32 after one is added to it modulo 2^32
NextBytes(b) ==
    IF b[4] < 255 THEN <<b[1], b[2], b[3], b[4] + 1>>
    ELSE IF b[3] < 255 THEN <<b[1], b[2], b[3] + 1, 0>>
    ELSE IF b[2] < 255 THEN <<b[1], b[2] + 1, 0, 0>>
    ELSE <<(b[1] + 1) % 256, 0, 0, 0>>

\* b after k additions of one
RECURSIVE BytesAfter(_, _)
BytesAfter(b, k) == IF k = 0 THEN b ELSE BytesAfter(NextBytes(b), k - 1)

\* Endpoint n holds nothing for p
HoldsNothingFor(E, p) ==
    /\ ~Has(E.send_buffer, p) /\ ~Has(E.recv_acks, p) /\ ~Has(E.next_seq, p)
    /\ ~Has(E.rtt_stats, p) /\ ~Has(E.connection_stats, p)
    /\ ~Has(E.connection_states, p) /\ ~Has(E.pending_acks, p)

\* A step other than the network's copying a datagram, for endpoint n and
\* address p: the k new frames for p carry the k
\* sequences that follow the counter for p (0 where n has no counter for p),
\* each once; afterwards the counter stands k further modulo 2^32, unless the
\* step tore the state for p down, and without a new frame it is as it was
SequenceStep(n, p) ==
    LET had == Has(eng[n].next_seq, p)
        counter == to_be_bytes(Get(eng[n].next_seq, p, 0))
        k == Cardinality(Assigned(n, p))
    IN /\ {to_be_bytes(s) : s \in Assigned(n, p)} = {BytesAfter(counter, i) : i \in 0..(k - 1)}
       /\ \/ /\ Has(eng'[n].next_seq, p)
             /\ to_be_bytes(eng'[n].next_seq[p]) = BytesAfter(counter, k)
             /\ k = 0 => had
          \/ ~had /\ k = 0 /\ ~Has(eng'[n].next_seq, p)
          \/ HoldsNothingFor(eng'[n], p)

\* C26: sequence assignment: the first frame to a new peer gets sequence 0; each
\* sequence-consuming operation for peer P (Data send, DataAck flush, Ping,
\* Close) takes the current counter and stores counter + 1 modulo 2^32, so that
\* successive frames to P carry consecutive sequences (2^32 - 2, 2^32 - 1, 0, 1),
\* and the counters of different peers are independent.
C26_SequenceAssignment ==
    [][\/ \E dg \in DOMAIN net : Duplicate(dg)
       \/ \A n \in Node : \A p \in Node \cup Peer : SequenceStep(n, p)]_vars

\* A has sent B Data under 2^32 - 2 and 2^32 - 1, a Ping under 0 and now a
\* Close under 1, while its frames for C began at 0: Data under 0 and a Close
\* under 2 after the Ping under 1
C26_Witness ==
    /\ \E i, j \in 1..Len(hist) :
          /\ hist[i].src = "A" /\ hist[i].dst = "B" /\ hist[i].seq = U32Max - 1
          /\ hist[j].src = "A" /\ hist[j].dst = "B" /\ hist[j].seq = U32Max
    /\ \E i \in 1..Len(hist) : hist[i].src = "A" /\ hist[i].dst = "C" /\ hist[i].seq = 0
    /\ FramesOf(net, "A", "B", PT_Close, 1) = 1
    /\ FramesOf(net, "A", "C", PT_Ping, 1) = 1
    /\ FramesOf(net, "A", "C", PT_Close, 2) = 1
    /\ ret.node = "A" /\ ret.kind = PT_PingAck /\ ret.from = "B"

\* The frame recv() makes of a datagram parses but its security code is not the
\* one computed from its type, sequence and payload
Forged(bytes) ==
    LET packet == parse(recv_from(bytes))
    IN /\ packet.err = ""
       /\ calculate(packet.packet_type, packet.seq, packet.data) # packet.security_code

\* recv() by n that takes a forged datagram returns the sender's address with
\* Err(Security), leaves the engine as it was and sends nothing
SecurityStep(n, dg) ==
    RecvDatagram(n, dg) /\ Forged(dg.bytes) =>
        /\ ret'.node = n /\ ret'.from = dg.src /\ ret'.result = "Security"
        /\ eng'[n] = eng[n]
        /\ net' = BagDel(net, dg)
        /\ hist' = hist

\* C27: an integrity failure is reported and has no effect: when a received
\* frame parses but its integrity tag does not match the tag recomputed from
\* its type, sequence and payload, recv returns Some with the sender's address
\* and Err(Security), and the engine state is unchanged (no received-set entry,
\* no scheduled ack, no retransmit-map removal, no liveness update, no teardown).
C27_IntegrityFailure ==
    [][\A n \in Node : \A dg \in DOMAIN net : SecurityStep(n, dg)]_vars

\* An endpoint whose frame has waited a timeout for its acknowledgement has
\* been handed the DataAck, altered on the way: recv has returned Err(Security),
\* the frame is still parked and the peer's last activity is as old as before
C27_Witness ==
    /\ ret.result = "Security" /\ ret.kind = PT_DataAck
    /\ Has(eng[ret.node].send_buffer, ret.from)
    /\ Has(eng[ret.node].connection_states, ret.from)
    /\ eng[ret.node].connection_states[ret.from].last_activity > 0
    /\ \A dg \in DOMAIN net : dg.dst # ret.node

\* The types of the frames handled inside the engine
ControlTypes == {PT_Ping, PT_PingAck, PT_DataAck, PT_DataNack, PT_Close, PT_CloseAck}

\* The copies on the wire of datagrams for endpoint n
Inbound(bag, n) == CountIn(bag, {dg \in DOMAIN bag : dg.dst = n})

\* The payloads handed to callers so far, each counted as often as it was
RECURSIVE Handed(_)
Handed(h) == IF h = <<>> THEN 0 ELSE Head(h).delivered + Handed(Tail(h))

\* recv() by n that takes datagram dg: a payload is returned only when dg is a
\* valid Data frame whose sequence is not in the set n holds for its sender, and
\* it is the payload of dg; a valid control frame makes recv return None; one
\* datagram for n leaves the wire and at most one payload is handed over
OnlyDataStep(n, dg) ==
    RecvDatagram(n, dg) =>
        LET packet == parse(recv_from(dg.bytes))
        IN /\ ret'.result = "Data" =>
                 /\ Valid(dg.bytes)
                 /\ packet.packet_type = PT_Data
                 /\ packet.seq \notin Get(eng[n].recv_acks, dg.src, {})
                 /\ ret'.data = packet.data
                 /\ Handed(hist') = Handed(hist) + 1
           /\ ret'.result # "Data" => ret'.data = NoData /\ Handed(hist') = Handed(hist)
           /\ Valid(dg.bytes) /\ packet.packet_type \in ControlTypes => ret'.result = "None"
           /\ Inbound(net', n) = Inbound(net, n) - 1

\* A step that is no recv() hands no payload to a caller
NoRecvStep ==
    ~(\E n \in Node : Recv(n)) => Handed(hist') = Handed(hist)

\* C28: only Data reaches the caller: recv returns Ok(buffer) only for a valid,
\* non-duplicate Data frame; every valid control frame (DataAck, DataNack, Ping,
\* PingAck, Close, CloseAck) is handled internally and makes recv return None;
\* each recv call consumes at most one datagram and returns at most one payload.
C28_OnlyDataReachesCaller ==
    [][(\A n \in Node : \A dg \in DOMAIN net : OnlyDataStep(n, dg)) /\ NoRecvStep]_vars

\* An endpoint has been handed the one payload once, and recv has just returned
\* None for a second copy of its Data frame
C28_Witness ==
    /\ ret.result = "None" /\ ret.kind = PT_Data
    /\ Len(hist) = 1 /\ hist[1].delivered = 1 /\ hist[1].dst = ret.node
    /\ 0 \in Get(eng[ret.node].recv_acks, ret.from, {})

\* recv() by n that takes a valid Close from p puts one CloseAck for p on the
\* wire, under the sequence of the Close, and leaves n holding nothing for p;
\* one that takes a valid CloseAck from p sends nothing and leaves n holding
\* nothing for p
TeardownStep(n, dg) ==
    RecvDatagram(n, dg) /\ Valid(dg.bytes) =>
        /\ dg.bytes[1] = PT_Close =>
              /\ HoldsNothingFor(eng'[n], dg.src)
              /\ FramesOf(net', n, dg.src, PT_CloseAck, dg.bytes[3])
                     = FramesOf(net, n, dg.src, PT_CloseAck, dg.bytes[3]) + 1
              /\ Inbound(net', dg.src) = Inbound(net, dg.src) + 1
        /\ dg.bytes[1] = PT_CloseAck =>
              /\ HoldsNothingFor(eng'[n], dg.src)
              /\ net' = BagDel(net, dg)

\* C29: close handshake teardown: on receiving a valid Close with sequence s
\* from P the engine transmits a CloseAck with sequence s to P and then holds no
\* entry for P in any per-peer map; on receiving a valid CloseAck from P it
\* likewise holds no entry for P; this also holds when P was unknown, in which
\* case no state is materialized.
C29_CloseTeardown ==
    [][\A n \in Node : \A dg \in DOMAIN net : TeardownStep(n, dg)]_vars

\* An endpoint that had been handed a payload of its peer has taken the peer's
\* Close: its CloseAck under the same sequence is on the wire and it holds
\* nothing for the peer
C29_Witness ==
    /\ ret.kind = PT_Close /\ ret.result = "None"
    /\ \E i \in 1..Len(hist) :
          /\ hist[i].src = ret.from /\ hist[i].dst = ret.node /\ hist[i].delivered = 1
          /\ FramesOf(net, ret.node, ret.from, PT_CloseAck, hist[i].seq + 1) = 1
    /\ HoldsNothingFor(eng[ret.node], ret.from)
    /\ Inbound(net, ret.node) = 0

\* recv() by n that takes a valid PingAck from p while its Ping to p is
\* outstanding and p is Probing: afterwards no ping is marked as sent, no ping
\* failure is counted, p is Alive and was last heard now
ReviveStep(n, dg) ==
    /\ RecvDatagram(n, dg) /\ Valid(dg.bytes) /\ dg.bytes[1] = PT_PingAck
    /\ Has(eng[n].connection_states, dg.src)
    /\ eng[n].connection_states[dg.src].ping_sent # -1
    /\ connection_status(eng[n], dg.src) = "Probing"
    => /\ Has(eng'[n].connection_states, dg.src)
       /\ eng'[n].connection_states[dg.src].ping_sent = -1
       /\ eng'[n].connection_states[dg.src].consecutive_ping_failures = 0
       /\ eng'[n].connection_states[dg.src].last_activity = 0
       /\ connection_status(eng'[n], dg.src) = "Alive"

\* tick() by n, for a peer p with no ping marked as sent and last heard more
\* than 30 s ago: a new Ping goes to p, under the sequence the counter for p
\* stands at after the acknowledgements are flushed, and p is Probing
PingAgainStep(n, p) ==
    /\ Tick(n)
    /\ Has(eng[n].connection_states, p)
    /\ eng[n].connection_states[p].ping_sent = -1
    /\ eng[n].connection_states[p].last_activity > IdleMs
    => LET A == send_pending_acks(handle_retransmissions(eng[n]).e)
           seq == Get(A.e.next_seq, p, 0)
       IN /\ FramesOf(net', n, p, PT_Ping, seq) = FramesOf(net, n, p, PT_Ping, seq) + 1
          /\ Has(eng'[n].connection_states, p)
          /\ eng'[n].connection_states[p].ping_sent = 0
          /\ connection_status(eng'[n], p) = "Probing"

\* C30: a PingAck revives the peer: when a Ping to P is outstanding (status
\* Probing) and a valid PingAck from P is processed, the outstanding-ping
\* marker is cleared, consecutive_ping_failures is 0 and connection_status(P)
\* is Alive, so that a later idle period of more than 30 s triggers a new Ping.
C30_PingAckRevives ==
    [][/\ \A n \in Node : \A dg \in DOMAIN net : ReviveStep(n, dg)
       /\ \A n \in Node : \A p \in Node : PingAgainStep(n, p)]_vars

\* An endpoint whose first Ping was answered has, after another idle period,
\* sent its peer a second Ping: the last datagram taken was the PingAck, two
\* sequences lie between the Data frame and the counter, and the peer is
\* Probing again
C30_Witness ==
    /\ ret.kind = PT_PingAck /\ ret.result = "None"
    /\ Has(eng[ret.node].connection_states, ret.from)
    /\ connection_status(eng[ret.node], ret.from) = "Probing"
    /\ eng[ret.node].connection_states[ret.from].ping_sent = 0
    /\ Len(hist) = 1 /\ hist[1].src = ret.node /\ hist[1].fate = "acked"
    /\ eng[ret.node].next_seq[ret.from] = hist[1].seq + 3
    /\ FramesOf(net, ret.node, ret.from, PT_Ping, hist[1].seq + 2) = 1

\* How often sequence s is listed in seqs
Occurrences(seqs, s) == Cardinality({i \in 1..Len(seqs) : seqs[i] = s})

\* The copies of datagram d in a bag
CopiesOf(bag, d) == IF d \in DOMAIN bag THEN bag[d] ELSE 0

\* The sequences a datagram lists when recv takes it as a valid DataNack, in
\* the order listed
NackList(bytes) ==
    LET nack_packet == seqs_deserialize(recv_from(bytes)[4])
    IN IF nack_packet[1] THEN nack_packet[2] ELSE <<>>

\* recv() by n that takes a valid DataNack from p.  For a listed sequence n
\* holds a frame under for p, the stored bytes go to p once for each time it is
\* listed and the entry stays, with the same bytes; nothing else goes out; the
\* retransmissions counted for p grow by the number of frames sent; and when
\* no listed sequence is parked, nothing changes but the note that p was heard
NackStep(n, dg) ==
    RecvDatagram(n, dg) /\ Valid(dg.bytes) /\ dg.bytes[1] = PT_DataNack =>
        LET p == dg.src
            listed == NackList(dg.bytes)
            parked == Get(eng[n].send_buffer, p, EmptyMap)
            hit == {s \in DOMAIN parked : Occurrences(listed, s) > 0}
            again == [s \in hit |-> [src |-> n, dst |-> p, bytes |-> parked[s].data]]
            heard == IF Has(eng[n].connection_states, p)
                     THEN [eng[n] EXCEPT !.connection_states[p] = update_activity(@)]
                     ELSE eng[n]
        IN /\ \A s \in hit :
                 /\ CopiesOf(net', again[s]) = CopiesOf(net, again[s]) + Occurrences(listed, s)
                 /\ Has(eng'[n].send_buffer, p) /\ Has(eng'[n].send_buffer[p], s)
                 /\ eng'[n].send_buffer[p][s].data = parked[s].data
           /\ \A d \in DOMAIN net' : d \notin {again[s] : s \in hit} =>
                 CopiesOf(net', d) = CopiesOf(BagDel(net, dg), d)
           /\ DOMAIN Get(eng'[n].send_buffer, p, EmptyMap) = DOMAIN parked
           /\ hit # {} =>
                 eng'[n].connection_stats[p].retransmissions
                     = Get(eng[n].connection_stats, p, ConnectionStats_new).retransmissions
                           + Cardinality({i \in 1..Len(listed) : listed[i] \in hit})
           /\ hit = {} => eng'[n] = heard /\ net' = BagDel(net, dg)

\* C31: DataNack handling: for each sequence listed in a valid DataNack from P
\* that is present in the retransmit map for P, the engine immediately
\* retransmits that frame's stored bytes once, keeps the entry in the map and
\* increments retransmissions by one; for a listed sequence not in the map
\* nothing is transmitted and no state changes.
C31_NackHandling ==
    [][\A n \in Node : \A dg \in DOMAIN net : NackStep(n, dg)]_vars

\* An endpoint with two frames parked has taken a DataNack that lists both:
\* each has gone out a second time, both are still parked and two
\* retransmissions are counted
C31_Witness ==
    /\ ret.kind = PT_DataNack /\ ret.result = "None"
    /\ Len(hist) = 2 /\ hist[1].tx = 2 /\ hist[2].tx = 2
    /\ IsParked(1) /\ IsParked(2)
    /\ eng[ret.node].connection_stats[ret.from].retransmissions = 2

\* tick() by n, for peer p: the retransmission step changes the status of p
\* only when it removes a frame to p that has reached the retry cap
DegradeStep(n, p) ==
    Tick(n) =>
        LET R == handle_retransmissions(eng[n])
        IN connection_status(R.e, p) # connection_status(eng[n], p) =>
               /\ connection_status(R.e, p) = "Degraded"
               /\ abandoned_seqs(Get(eng[n].send_buffer, p, EmptyMap)) # {}

\* C32: Degraded only on abandonment: the retransmission step of tick calls
\* mark_packet_lost for peer P (status becomes Degraded) only in a tick in
\* which a frame to P is removed for having reached the retry cap; a tick in
\* which frames to P are merely pending or retransmitted leaves
\* connection_status(P) as it was.
C32_DegradedOnlyOnAbandonment ==
    [][\A n \in Node : \A p \in Node : DegradeStep(n, p)]_vars

\* C33: loss reaction of the congestion controller: on_packet_lost called when
\* no congestion event lies less than one RTO back sets ssthresh to
\* max(2, cwnd / 2) and, from SlowStart or CongestionAvoidance, sets cwnd to
\* that ssthresh and the state to CongestionAvoidance; called less than one RTO
\* after the previous event it changes neither cwnd, ssthresh nor state.
Suppressed(rs) == rs.last_congestion # -1 /\ rs.last_congestion < rs.rto

LossStep ==
    OnPacketLost =>
        IF Suppressed(cc.rs)
        THEN /\ cc'.rs.cwnd = cc.rs.cwnd
             /\ cc'.rs.ssthresh = cc.rs.ssthresh
             /\ cc'.rs.congestion_state = cc.rs.congestion_state
        ELSE /\ cc'.rs.ssthresh = Max(2, cc.rs.cwnd \div 2)
             /\ cc'.rs.cwnd = cc'.rs.ssthresh
             /\ cc'.rs.congestion_state = "CongestionAvoidance"

C33_LossReaction == [][LossStep]_vars

C33_Witness ==
    /\ cc.op = "on_packet_lost"
    /\ cc.calls = 0
    /\ cc.was.last_congestion = SuppressMs
    /\ cc.rs = cc.was
    /\ cc.rs.congestion_state = "CongestionAvoidance"
    /\ cc.rs.cwnd = cc.rs.ssthresh
    /\ cc.rs.cwnd > 2

\* C34: ack reaction of the congestion controller: on_ack_received(n) sets
\* in_flight to max(0, in_flight - n); in SlowStart it adds n to cwnd and
\* switches to CongestionAvoidance when the sum is at least ssthresh; it never
\* changes ssthresh; and afterwards cwnd is at most 1000.  The sum is the sum
\* of the two numbers, stated here without forming it: n is a u32, cwnd and the
\* number compared with are below 2^31.
SumAtLeast(cwnd, n, x) == n < 0 \/ n >= x - cwnd

AckReceivedStep(n) ==
    OnAckReceived(n) =>
        /\ ~cc'.panicked
        /\ cc'.rs.in_flight = (IF u32_lt(cc.rs.in_flight, n) THEN 0
                               ELSE cc.rs.in_flight - n)
        /\ cc'.rs.ssthresh = cc.rs.ssthresh
        /\ cc'.rs.cwnd >= 0 /\ cc'.rs.cwnd <= MAX_CWND
        /\ cc.rs.congestion_state = "SlowStart" =>
              /\ cc'.rs.cwnd = (IF SumAtLeast(cc.rs.cwnd, n, MAX_CWND) THEN MAX_CWND
                                ELSE cc.rs.cwnd + n)
              /\ cc'.rs.congestion_state =
                     (IF SumAtLeast(cc.rs.cwnd, n, cc.rs.ssthresh)
                      THEN "CongestionAvoidance" ELSE "SlowStart")

C34_AckReaction == [][\A n \in AckedSamples : AckReceivedStep(n)]_vars

\* C40: FastRecovery is unreachable: from RttStats::new (cwnd = 1,
\* ssthresh = 65535, SlowStart) no sequence of on_packet_sent, on_ack_received
\* and on_packet_lost calls puts the controller in FastRecovery, and in every
\* state so reached 1 <= cwnd <= 1000 and ssthresh >= 2.
C40_FastRecoveryUnreachable ==
    /\ cc.rs.congestion_state # "FastRecovery"
    /\ 1 <= cc.rs.cwnd /\ cc.rs.cwnd <= MAX_CWND
    /\ 2 <= cc.rs.ssthresh

\* C35: no engine path calls mark_ping_failed, so for every tracked peer
\* consecutive_ping_failures is 0 and should_close is false in every state;
\* and while a Ping to P is outstanding, every step other than close() and the
\* receipt of a PingAck, Close or CloseAck from P leaves P tracked with the ping
\* still marked, and puts no further Ping to P on the wire: the liveness sweep
\* never tears P down.  The status of P is another matter: it is left as it
\* was (Probing) by everything except a send to P or a frame from P that
\* verifies, which make it Alive with the ping still marked, and a tick that
\* finds frames to P awaiting acknowledgement, which makes it Degraded.
NeverFailed ==
    \A n \in Node : \A p \in DOMAIN eng[n].connection_states :
        /\ eng[n].connection_states[p].consecutive_ping_failures = 0
        /\ ~should_close(eng[n].connection_states[p])

PingsOf(bag, n, p) ==
    CountIn(bag, {dg \in DOMAIN bag : /\ dg.src = n /\ dg.dst = p
                                      /\ Valid(dg.bytes) /\ dg.bytes[1] = PT_Ping})

Outstanding(n, p) ==
    /\ Has(eng[n].connection_states, p)
    /\ eng[n].connection_states[p].ping_sent # -1

\* the step ends the wait: P answers or closes, or the endpoint closes
EndsWait(n, p) ==
    \/ Close(n)
    \/ \E dg \in DOMAIN net :
          /\ RecvDatagram(n, dg) /\ dg.src = p /\ Valid(dg.bytes)
          /\ dg.bytes[1] \in {PT_PingAck, PT_Close, PT_CloseAck}

HeardOrSent(n, p) ==
    \/ \E dg \in DOMAIN net : RecvDatagram(n, dg) /\ dg.src = p /\ Valid(dg.bytes)
    \/ /\ Len(hist') > Len(hist)
       /\ hist'[Len(hist')].src = n /\ hist'[Len(hist')].dst = p
       /\ hist'[Len(hist')].accepted

StillWaiting(n, p) ==
    /\ Has(eng'[n].connection_states, p)
    /\ eng'[n].connection_states[p].ping_sent # -1
    /\ eng'[n].connection_states[p].consecutive_ping_failures = 0
    /\ (\E dg \in DOMAIN net : Duplicate(dg)) \/ PingsOf(net', n, p) <= PingsOf(net, n, p)

UnansweredStep(n, p) ==
    Outstanding(n, p) /\ ~EndsWait(n, p) =>
        /\ StillWaiting(n, p)
        /\ connection_status(eng'[n], p) =
              IF HeardOrSent(n, p) THEN "Alive"
              ELSE IF Tick(n) /\ Has(handle_retransmissions(eng[n]).e.send_buffer, p)
              THEN "Degraded"
              ELSE connection_status(eng[n], p)

C35_PingNeverFails ==
    /\ []NeverFailed
    /\ [][\A n \in Node : \A p \in Node \cup Peer : UnansweredStep(n, p)]_vars

\* a Ping to an address nobody listens on, older than the timeout after the
\* second silence, a tick since: the address is still tracked with the ping
\* marked, and that Ping is the only one sent
C35_Witness ==
    /\ Outstanding("A", "C")
    /\ eng["A"].connection_states["C"].ping_sent > PingTimeoutMs
    /\ eng["A"].last_cleanup < eng["A"].connection_states["C"].ping_sent
    /\ cnt.advance = 0
    /\ PingsOf(net, "A", "C") = 1

\* C35 as worded: a peer whose Ping is not answered stays Probing
ProbingStep(n, p) ==
    /\ Outstanding(n, p)
    /\ connection_status(eng[n], p) = "Probing"
    /\ ~EndsWait(n, p)
    => /\ StillWaiting(n, p)
       /\ connection_status(eng'[n], p) = "Probing"

C35_StaysProbing ==
    /\ []NeverFailed
    /\ [][\A n \in Node : \A p \in Node \cup Peer : ProbingStep(n, p)]_vars

\* C36: teardown restarts the sequence space: once the state of peer P is
\* removed at the sender (close(), or a Close or CloseAck from P) the sender
\* holds no counter for P, and the frame it sends to P next carries sequence 0;
\* while the set of received sequences an endpoint holds for a sender changes
\* only by that endpoint's own steps: a Data frame of the sender adds its
\* sequence, and a Close or CloseAck of the sender, the endpoint's own close()
\* or its periodic cleanup empty it.
Removes(n, p) ==
    \/ Close(n)
    \/ \E dg \in DOMAIN net :
          /\ RecvDatagram(n, dg) /\ dg.src = p /\ Valid(dg.bytes)
          /\ dg.bytes[1] \in {PT_Close, PT_CloseAck}

Submits(n, p) ==
    /\ \E len \in {ShortLen}, ok \in BOOLEAN : Send(n, p, len, ok)
    /\ hist'[Len(hist')].dst = p

RestartStep(n, p) ==
    /\ Removes(n, p) => ~Has(eng'[n].next_seq, p)
    /\ Submits(n, p) /\ ~Has(eng[n].next_seq, p) =>
          /\ FramesOf(net', n, p, PT_Data, 0) = FramesOf(net, n, p, PT_Data, 0) + 1
          /\ eng'[n].next_seq[p] = 1

ReceivedFrom(E, p) == Get(E.recv_acks, p, {})

KeptStep(n, p) ==
    ReceivedFrom(eng'[n], p) # ReceivedFrom(eng[n], p) =>
        \/ Removes(n, p) /\ ReceivedFrom(eng'[n], p) = {}
        \/ Tick(n) /\ eng[n].last_cleanup > CleanupMs /\ ReceivedFrom(eng'[n], p) = {}
        \/ \E dg \in DOMAIN net :
              /\ RecvDatagram(n, dg) /\ dg.src = p /\ Valid(dg.bytes)
              /\ dg.bytes[1] = PT_Data
              /\ ReceivedFrom(eng'[n], p) = ReceivedFrom(eng[n], p) \cup {dg.bytes[3]}

C36_TeardownRestartsSequence ==
    [][\A n \in Node : \A p \in Node : RestartStep(n, p) /\ KeptStep(n, p)]_vars

\* A has closed after its first payload reached B, and has submitted another:
\* both went out under sequence 0, and B still holds 0 for A
C36_Witness ==
    /\ Len(hist) = 2
    /\ \A i \in 1..2 : hist[i].src = "A" /\ hist[i].dst = "B" /\ hist[i].seq = 0
    /\ hist[1].delivered = 1 /\ hist[1].fate # "pending"
    /\ cnt.close = 0
    /\ eng["A"].next_seq = [x \in {"B"} |-> 1]
    /\ 0 \in ReceivedFrom(eng["B"], "A")
    /\ FramesOf(net, "A", "B", PT_Data, 0) = 1

\* C37: a send whose transmit fails returns the Io error with the sequence
\* number consumed and the frame parked in the retransmit map: packets_sent is
\* not incremented, no liveness entry is created and nothing goes on the wire;
\* and a later tick that finds the frame's timeout elapsed transmits it.
FailedSendStep(n, t) ==
    Send(n, t, ShortLen, FALSE) =>
        LET seq == Get(eng[n].next_seq, t, 0)
            data == UserData(Len(hist) + 1, ShortLen)
        IN /\ send(eng[n], data, t, FALSE).result = "Io"
           /\ eng'[n].next_seq[t] = wrapping_add(seq)
           /\ Has(eng'[n].send_buffer, t) /\ Has(eng'[n].send_buffer[t], seq)
           /\ eng'[n].send_buffer[t][seq].data = fill_protocol_header(PT_Data, seq, data)
           /\ eng'[n].send_buffer[t][seq].retry_count = 0
           /\ eng'[n].connection_stats = eng[n].connection_stats
           /\ eng'[n].connection_states = eng[n].connection_states
           /\ net' = net

RetransmitStep(n, t) ==
    Tick(n) /\ Has(eng[n].send_buffer, t) =>
        \A seq \in retried_seqs(eng[n].send_buffer[t]) :
            LET dg == [src |-> n, dst |-> t, bytes |-> eng[n].send_buffer[t][seq].data]
            IN CopiesOf(net', dg) = CopiesOf(net, dg) + 1

C37_FailedSendStillParked ==
    [][\A n \in Node : \A t \in Node : FailedSendStep(n, t) /\ RetransmitStep(n, t)]_vars

\* the payload whose send failed has reached B through a retransmission, and A
\* has counted no packet sent and tracks no liveness for B
C37_Witness ==
    /\ Len(hist) = 1
    /\ ~hist[1].accepted
    /\ hist[1].tx = 1 /\ hist[1].delivered = 1
    /\ Get(eng["A"].connection_stats, "B", ConnectionStats_new).packets_sent = 0
    /\ Get(eng["A"].connection_stats, "B", ConnectionStats_new).retransmissions = 1
    /\ ~Has(eng["A"].connection_states, "B")

\* C38: teardown silently discards unacknowledged data: when the state of
\* peer P is removed (a Close or CloseAck from P, or the endpoint's close())
\* while Data frames to P are in the retransmit map, the map and the statistics
\* for P are gone after the step and none of the frames is sent in it; and a
\* payload whose frame was discarded this way is never put on the wire again.
PayloadFrames(bag, i) ==
    CountIn(bag, {dg \in DOMAIN bag : dg.bytes[1] = PT_Data /\ dg.bytes[4].body[1] = i})

DiscardStep(n, p) ==
    Removes(n, p) /\ Has(eng[n].send_buffer, p) =>
        /\ ~Has(eng'[n].send_buffer, p)
        /\ ~Has(eng'[n].connection_stats, p)
        /\ \A seq \in DOMAIN eng[n].send_buffer[p] :
              LET dg == [src |-> n, dst |-> p, bytes |-> eng[n].send_buffer[p][seq].data]
              IN CopiesOf(net', dg) <= CopiesOf(net, dg)
        /\ \A i \in 1..Len(hist) :
              hist[i].src = n /\ hist[i].dst = p /\ IsParked(i) => hist'[i].fate = "torn"

GoneStep(i) ==
    hist[i].fate = "torn" =>
        /\ PayloadFrames(net', i) <= PayloadFrames(net, i)
        /\ hist'[i].tx = hist[i].tx
        /\ hist'[i].fate = "torn"

C38_TeardownDiscardsUnacked ==
    [][/\ \A n \in Node : \A p \in Node : DiscardStep(n, p)
       /\ \A i \in 1..Len(hist) : GoneStep(i)]_vars

\* A's payload for B was lost on the wire and then discarded by a teardown at
\* A; its timeout has since passed and A has acted again: the payload was
\* transmitted once, was never delivered, and A keeps no statistics for B
C38_Witness ==
    /\ Len(hist) = 2
    /\ hist[1].src = "A" /\ hist[1].dst = "B"
    /\ hist[1].fate = "torn" /\ hist[1].tx = 1 /\ hist[1].dropped = 1
    /\ hist[1].delivered = 0
    /\ cnt.advance = 0
    /\ hist[2].src = "B"
    /\ ~Has(eng["A"].send_buffer, "B")
    /\ ~Has(eng["A"].connection_stats, "B")

\* C39: acknowledgements are idempotent and order-independent: a DataAck
\* removes from the retransmit map of its sender exactly the listed sequences
\* that are in it and leaves every other entry as it was; one that lists no
\* sequence in the map (already acknowledged, or never sent) leaves the map,
\* the RTT estimator and the statistics as they were; and from any state with
\* two pending sequences, their DataAcks processed in either order, or both
\* in one DataAck, leave the same retransmit map.
AckListed(bytes) ==
    LET ack_packet == seqs_deserialize(bytes[4])
    IN IF ack_packet[1] THEN {ack_packet[2][i] : i \in 1..Len(ack_packet[2])} ELSE {}

AckedStep(n, dg) ==
    RecvDatagram(n, dg) /\ Valid(dg.bytes) /\ dg.bytes[1] = PT_DataAck =>
        LET old == Get(eng[n].send_buffer, dg.src, EmptyMap)
            new == Get(eng'[n].send_buffer, dg.src, EmptyMap)
            hit == AckListed(dg.bytes) \cap DOMAIN old
        IN /\ DOMAIN new = (DOMAIN old) \ hit
           /\ \A s \in DOMAIN new : new[s] = old[s]
           /\ \A a \in (DOMAIN eng[n].send_buffer) \ {dg.src} :
                 Has(eng'[n].send_buffer, a) /\ eng'[n].send_buffer[a] = eng[n].send_buffer[a]
           /\ hit = {} =>
                 /\ eng'[n].send_buffer = eng[n].send_buffer
                 /\ eng'[n].rtt_stats = eng[n].rtt_stats
                 /\ eng'[n].connection_stats = eng[n].connection_stats
           /\ hit # {} => eng'[n].rtt_stats # eng[n].rtt_stats

RECURSIVE AfterAcks(_, _, _)
AfterAcks(E, p, lists) ==
    IF lists = <<>> THEN E
    ELSE AfterAcks(recv(E, AckFrame(Head(lists)), p).e, p, Tail(lists))

OrderFree ==
    \A n \in Node : \A p \in DOMAIN eng[n].send_buffer :
        \A s1, s2 \in DOMAIN eng[n].send_buffer[p] :
            s1 # s2 =>
                /\ AfterAcks(eng[n], p, <<(<<s1>>), (<<s2>>)>>).send_buffer
                       = AfterAcks(eng[n], p, <<(<<s2>>), (<<s1>>)>>).send_buffer
                /\ AfterAcks(eng[n], p, <<(<<s1>>), (<<s2>>)>>).send_buffer
                       = AfterAcks(eng[n], p, <<(<<s1, s2>>)>>).send_buffer
                /\ AfterAcks(eng[n], p, <<(<<s1>>), (<<s1>>)>>).send_buffer
                       = AfterAcks(eng[n], p, <<(<<s1>>)>>).send_buffer

C39_AcksIdempotent ==
    /\ []OrderFree
    /\ [][\A n \in Node : \A dg \in DOMAIN net : AckedStep(n, dg)]_vars

\* B's two DataAcks have both been processed by A, the second payload is still
\* awaiting its acknowledgement and the first is acknowledged: one of the two
\* listed nothing A held
C39_Witness ==
    /\ Len(hist) = 2
    /\ hist[1].fate = "acked" /\ IsParked(2)
    /\ cnt.nack = 0
    /\ ret.node = "A" /\ ret.kind = PT_DataAck /\ ret.result = "None"
    /\ \A dg \in DOMAIN net : dg.bytes[1] # PT_DataAck
    /\ hist[1].delivered = 0
=============================================================================
